---- MODULE Spec2Model ----
(***************************************************************************)
(* Plan application engine of kAIcad (kaicad/core/writer.py) together     *)
(* with the validation layer it calls (kaicad/utils/validation.py) and    *)
(* the result types (kaicad/schema/plan.py).                              *)
(*                                                                         *)
(* Strings are sequences of one-character strings.  Lengths are in        *)
(* hundredths of a millimetre, so the 2.54 mm grid is 254.                *)
(***************************************************************************)
EXTENDS Integers, Sequences, FiniteSets, TLC

\* ------------------------------------------------------------------ bounds
MaxOps == 2
MaxStr == 4
MaxTuple == 3
MaxSnap == 13000
MaxKey == 14

\* --------------------------------------------------------------- constants
PLAN_SCHEMA_VERSION == 1
GRID_MM == 254
MAX_COORD == 100000000
MaxSymbolLen == 200
MaxPinLen == 50
MaxListedPins == 10

\* ------------------------------------------------------------ characters
Upper == {"A","B","C","D","E","F","G","H","I","J","K","L","M",
          "N","O","P","Q","R","S","T","U","V","W","X","Y","Z"}
Lower == {"a","b","c","d","e","f","g","h","i","j","k","l","m",
          "n","o","p","q","r","s","t","u","v","w","x","y","z"}
Digit == {"0","1","2","3","4","5","6","7","8","9"}
Whitespace == {" ", "\t", "\n", "\r", "\f"}
SymbolChars == Upper \cup Lower \cup Digit \cup {"_", "-", "+", ".", " "}

\* F(v) with v evaluated once: a local variable holding a computed value
Let(v, F(_)) == CHOOSE r \in {F(x) : x \in {v}} : TRUE

\* Python None where a string is expected
None == <<"None">>

\* c in s
HasChar(s, c) == \E i \in 1..Len(s) : s[i] = c

\* '..' in s
HasDotDot(s) == \E i \in 1..(Len(s) - 1) : s[i] = "." /\ s[i + 1] = "."

\* index of the first occurrence of c in s (0 when absent)
FirstIndex(s, c) ==
    IF HasChar(s, c) THEN CHOOSE i \in 1..Len(s) : s[i] = c /\ \A j \in 1..(i - 1) : s[j] # c
    ELSE 0

\* index of the last occurrence of c in s (0 when absent)
LastIndex(s, c) ==
    IF HasChar(s, c) THEN CHOOSE i \in 1..Len(s) : s[i] = c /\ \A j \in (i + 1)..Len(s) : s[j] # c
    ELSE 0

\* s.split(c, 1) for a string that contains c
SplitFirst(s, c) ==
    LET i == FirstIndex(s, c) IN <<SubSeq(s, 1, i - 1), SubSeq(s, i + 1, Len(s))>>

\* s.strip()
Strip(s) ==
    LET keep == {i \in 1..Len(s) : s[i] \notin Whitespace} IN
    IF keep = {} THEN <<>>
    ELSE LET lo == CHOOSE i \in keep : \A j \in keep : i <= j
             hi == CHOOSE i \in keep : \A j \in keep : j <= i
         IN SubSeq(s, lo, hi)

AllIn(s, cls) == \A i \in 1..Len(s) : s[i] \in cls

\* '$' of re.match also matches just before one trailing newline
DollarForms(s) ==
    IF Len(s) > 0 /\ s[Len(s)] = "\n" THEN {s, SubSeq(s, 1, Len(s) - 1)} ELSE {s}

\* re.match(r'^[a-zA-Z0-9_\-+. ]+:[a-zA-Z0-9_\-+. ]+$', s)
MatchSymbolRegex(s) ==
    \E t \in DollarForms(s) :
        /\ HasChar(t, ":")
        /\ LET p == SplitFirst(t, ":") IN
              /\ Len(p[1]) > 0 /\ AllIn(p[1], SymbolChars)
              /\ Len(p[2]) > 0 /\ AllIn(p[2], SymbolChars)

\* re.match(r'^[A-Z]+[0-9]+$', s)
MatchRefRegex(s) ==
    \E t \in DollarForms(s) :
        \E k \in 1..(Len(t) - 1) :
            /\ AllIn(SubSeq(t, 1, k), Upper)
            /\ AllIn(SubSeq(t, k + 1, Len(t)), Digit)

\* ------------------------------------------------------------ validation
validate_symbol_name(symbol) ==
    IF Len(symbol) = 0 \/ Len(Strip(symbol)) = 0
    THEN [valid |-> FALSE, error |-> "Symbol name cannot be empty"]
    ELSE IF ~HasChar(symbol, ":")
    THEN [valid |-> FALSE, error |-> "Symbol must be in format 'Library:Name'"]
    ELSE LET parts == SplitFirst(symbol, ":")
             lib == parts[1]
             name == parts[2]
         IN IF Len(Strip(lib)) = 0 \/ Len(Strip(name)) = 0
            THEN [valid |-> FALSE, error |-> "Library and symbol name cannot be empty"]
            ELSE IF HasDotDot(lib) \/ HasDotDot(name)
            THEN [valid |-> FALSE, error |-> "Symbol name contains path traversal"]
            ELSE IF HasChar(symbol, "/") \/ HasChar(symbol, "\\")
            THEN [valid |-> FALSE, error |-> "Symbol name contains path separators"]
            ELSE IF ~MatchSymbolRegex(symbol)
            THEN [valid |-> FALSE, error |-> "Symbol name contains invalid characters"]
            ELSE IF Len(symbol) > MaxSymbolLen
            THEN [valid |-> FALSE, error |-> "Symbol name too long (max 200 characters)"]
            ELSE [valid |-> TRUE, error |-> "None"]

\* faulty variant: the length limit is applied to the stripped pin
validate_wire_format_striplen(wire_spec) ==
    IF Len(wire_spec) = 0 \/ Len(Strip(wire_spec)) = 0
    THEN [valid |-> FALSE, error |-> "Wire specification cannot be empty", ref |-> None, pin |-> None]
    ELSE IF ~HasChar(wire_spec, ":")
    THEN [valid |-> FALSE, error |-> "Wire format must be 'REF:PIN'", ref |-> None, pin |-> None]
    ELSE LET parts == SplitFirst(wire_spec, ":")
             ref == parts[1]
             pin == parts[2]
         IN IF Len(Strip(ref)) = 0
            THEN [valid |-> FALSE, error |-> "Component reference cannot be empty", ref |-> None, pin |-> None]
            ELSE IF ~MatchRefRegex(Strip(ref))
            THEN [valid |-> FALSE, error |-> "Invalid component reference", ref |-> None, pin |-> None]
            ELSE IF Len(Strip(pin)) = 0
            THEN [valid |-> FALSE, error |-> "Pin name/number cannot be empty", ref |-> None, pin |-> None]
            ELSE IF Len(Strip(pin)) > MaxPinLen
            THEN [valid |-> FALSE, error |-> "Pin name too long", ref |-> None, pin |-> None]
            ELSE [valid |-> TRUE, error |-> "None", ref |-> Strip(ref), pin |-> Strip(pin)]

validate_wire_format(wire_spec) ==
    IF Len(wire_spec) = 0 \/ Len(Strip(wire_spec)) = 0
    THEN [valid |-> FALSE, error |-> "Wire specification cannot be empty", ref |-> None, pin |-> None]
    ELSE IF ~HasChar(wire_spec, ":")
    THEN [valid |-> FALSE, error |-> "Wire format must be 'REF:PIN'", ref |-> None, pin |-> None]
    ELSE LET parts == SplitFirst(wire_spec, ":")
             ref == parts[1]
             pin == parts[2]
         IN IF Len(Strip(ref)) = 0
            THEN [valid |-> FALSE, error |-> "Component reference cannot be empty", ref |-> None, pin |-> None]
            ELSE IF ~MatchRefRegex(Strip(ref))
            THEN [valid |-> FALSE, error |-> "Invalid component reference", ref |-> None, pin |-> None]
            ELSE IF Len(Strip(pin)) = 0
            THEN [valid |-> FALSE, error |-> "Pin name/number cannot be empty", ref |-> None, pin |-> None]
            ELSE IF Len(pin) > MaxPinLen
            THEN [valid |-> FALSE, error |-> "Pin name too long", ref |-> None, pin |-> None]
            ELSE [valid |-> TRUE, error |-> "None", ref |-> Strip(ref), pin |-> Strip(pin)]

\* A float is [k |-> "num", v |-> hundredths of a millimetre], or NaN / +-inf
Num(v) == [k |-> "num", v |-> v]
NaN == [k |-> "nan", v |-> 0]
PosInf == [k |-> "inf", v |-> 1]
NegInf == [k |-> "inf", v |-> -1]

isfinite(f) == f.k = "num"

Abs(n) == IF n < 0 THEN -n ELSE n

\* Other values an element of a coordinate can be: an int, an int too large
\* for a float, a string that float() parses (to a number, to nan), a string
\* it does not parse, None
IntValue(v) == [k |-> "int", v |-> v]
BigInt == [k |-> "bigint", v |-> 1]
StrNum(v) == [k |-> "str_num", v |-> v]
StrNaN == [k |-> "str_nan", v |-> 0]
StrBad == [k |-> "str_bad", v |-> 0]
NoneValue == [k |-> "none", v |-> 0]

\* float(e): the float, or the exception raised
float(e) ==
    IF e.k \in {"num", "nan", "inf"} THEN [exc |-> "none", f |-> e]
    ELSE IF e.k \in {"int", "str_num"} THEN [exc |-> "none", f |-> Num(e.v)]
    ELSE IF e.k = "str_nan" THEN [exc |-> "none", f |-> NaN]
    ELSE IF e.k = "bigint" THEN [exc |-> "OverflowError", f |-> NaN]
    ELSE IF e.k = "str_bad" THEN [exc |-> "ValueError", f |-> NaN]
    ELSE [exc |-> "TypeError", f |-> NaN]

\* return False, <error>, None
Invalid(error) ==
    [valid |-> FALSE, error |-> error, pair |-> FALSE, x |-> 0, y |-> 0, raised |-> FALSE]

\* an exception that `except (ValueError, TypeError)` does not catch
Raises(exc) ==
    [valid |-> FALSE, error |-> exc, pair |-> FALSE, x |-> 0, y |-> 0, raised |-> TRUE]

\* validate_coordinate from the length check on: coord is a list or a tuple.
\* (The plan schema types `at` as Tuple[float, float]: for a plan's coordinate
\* the isinstance check passes and float() returns its argument.)
validate_coordinate(coord) ==
    IF Len(coord) # 2
    THEN Invalid("Coordinate must have exactly 2 values")
    ELSE IF float(coord[1]).exc \in {"ValueError", "TypeError"}
    THEN Invalid("Coordinate values must be numbers")
    ELSE IF float(coord[1]).exc # "none"
    THEN Raises(float(coord[1]).exc)
    ELSE IF float(coord[2]).exc \in {"ValueError", "TypeError"}
    THEN Invalid("Coordinate values must be numbers")
    ELSE IF float(coord[2]).exc # "none"
    THEN Raises(float(coord[2]).exc)
    ELSE LET x == float(coord[1]).f
             y == float(coord[2]).f
         IN IF ~(isfinite(x) /\ isfinite(y))
            THEN Invalid("Coordinate values must be finite numbers")
            ELSE IF Abs(x.v) > MAX_COORD \/ Abs(y.v) > MAX_COORD
            THEN Invalid("Coordinate values exceed maximum")
            ELSE [valid |-> TRUE, error |-> "None", pair |-> TRUE, x |-> x.v, y |-> y.v,
                  raised |-> FALSE]

\* a value of any type: a list or tuple with its items, or something else
Value(type, items) == [type |-> type, items |-> items]

\* validate_coordinate(coord: Any)
validate_coordinate_any(coord) ==
    IF coord.type \notin {"list", "tuple"}
    THEN Invalid("Coordinate must be [x, y]")
    ELSE validate_coordinate(coord.items)

\* ------------------------------------------------------------- grid snap
\* round(n / d) cutting the fraction off instead
round_floor(n, d) == n \div d

\* Python round(n / d): nearest integer, ties to the even one
round(n, d) ==
    LET q == n \div d
        r == n % d
    IN IF 2 * r < d THEN q
       ELSE IF 2 * r > d THEN q + 1
       ELSE IF q % 2 = 0 THEN q ELSE q + 1

\* snap_to_grid without the multiplication by the grid
snap_to_grid_unscaled(value) == round(value, GRID_MM)

snap_to_grid(value) == round(value, GRID_MM) * GRID_MM

\* value lies half-way between two grid points
is_tie(value) == 2 * (value % GRID_MM) = GRID_MM

\* What snap_to_grid returns in binary floating point. value / grid is a
\* rounded quotient: half-way between two grid points it comes out at the
\* half (and round goes to the even side) or just beside it (16.51 / 2.54 is
\* 6.500000000000001 and snaps to 17.78, not to 15.24), so either
\* neighbouring grid point can be the result; everywhere else the result
\* is that of the exact quotient.
snap_results(value) ==
    IF is_tie(value)
    THEN { (value \div GRID_MM) * GRID_MM, (value \div GRID_MM + 1) * GRID_MM }
    ELSE { snap_to_grid(value) }

\* -------------------------------------------------------------- document
\* A coordinate pair, or the absence of one
At(x, y) == [has |-> TRUE, x |-> x, y |-> y]
NoAt == [has |-> FALSE, x |-> 0, y |-> 0]

\* A pin-location mapping is a Python dict: key/value entries in insertion order
DictHas(m, k) == \E i \in 1..Len(m) : m[i].key = k
DictGet(m, k) == m[CHOOSE i \in 1..Len(m) : m[i].key = k].coord
DictSet(m, k, c) ==
    IF DictHas(m, k)
    THEN [i \in 1..Len(m) |-> IF m[i].key = k THEN [key |-> k, coord |-> c] ELSE m[i]]
    ELSE Append(m, [key |-> k, coord |-> c])
DictKeys(m) == [i \in 1..Len(m) |-> m[i].key]

\* get_symbol_ref: Reference.value first, else the first entry of allReferences
get_symbol_ref(sym) ==
    IF sym.Reference.has THEN sym.Reference.value
    ELSE IF Len(sym.allReferences) > 0
    THEN LET s == sym.allReferences[1] IN
         IF HasChar(s, "=") THEN Strip(SubSeq(s, LastIndex(s, "=") + 1, Len(s))) ELSE Strip(s)
    ELSE None

\* `if ref:` of build_ref_index
Truthy(ref) == ref # None /\ Len(ref) > 0

\* build_ref_index: left-to-right scan, a later symbol overwrites an earlier one.
\* A symbol handle is the symbol's position in doc.symbol.
RECURSIVE ScanSymbols(_, _, _)
ScanSymbols(symbols, i, index) ==
    IF i > Len(symbols) THEN index
    ELSE Let(get_symbol_ref(symbols[i]), LAMBDA ref :
         IF Truthy(ref)
         THEN Let([r \in (DOMAIN index) \cup {ref} |-> IF r = ref THEN i ELSE index[r]],
                  LAMBDA updated : ScanSymbols(symbols, i + 1, updated))
         ELSE ScanSymbols(symbols, i + 1, index))

EmptyIndex == [r \in {} |-> 0]

\* faulty variant: the first symbol carrying a reference keeps its entry
RECURSIVE ScanSymbolsFirst(_, _, _)
ScanSymbolsFirst(symbols, i, index) ==
    IF i > Len(symbols) THEN index
    ELSE Let(get_symbol_ref(symbols[i]), LAMBDA ref :
         IF Truthy(ref) /\ ref \notin DOMAIN index
         THEN Let([r \in (DOMAIN index) \cup {ref} |-> IF r = ref THEN i ELSE index[r]],
                  LAMBDA updated : ScanSymbolsFirst(symbols, i + 1, updated))
         ELSE ScanSymbolsFirst(symbols, i + 1, index))

build_ref_index_first(symbols) == ScanSymbolsFirst(symbols, 1, EmptyIndex)

build_ref_index(symbols) == ScanSymbols(symbols, 1, EmptyIndex)

\* the loop over sym.pin of get_pin_locations_compat
RECURSIVE ScanPins(_, _, _)
ScanPins(pins, i, locations) ==
    IF i > Len(pins) THEN locations
    ELSE LET pin == pins[i] IN
         IF ~pin.location.has THEN ScanPins(pins, i + 1, locations)
         ELSE LET coord == <<pin.location.x, pin.location.y>> IN
              Let(DictSet(locations, pin.number, coord), LAMBDA byNumber :
              Let(IF Len(pin.name) > 0 /\ pin.name # <<"~">>
                  THEN DictSet(byNumber, pin.name, coord) ELSE byNumber,
                  LAMBDA byName : ScanPins(pins, i + 1, byName)))

get_pin_locations_compat(sym) ==
    IF sym.get_pin_locations.kind = "map" THEN sym.get_pin_locations.map
    ELSE IF Len(sym.pin) = 0
    THEN IF sym.at.has
         THEN << [key |-> <<"1">>, coord |-> <<sym.at.x - 254, sym.at.y>>],
                 [key |-> <<"2">>, coord |-> <<sym.at.x + 254, sym.at.y>>] >>
         ELSE <<>>
    ELSE ScanPins(sym.pin, 1, <<>>)

\* ------------------------------------------------------------ diagnostics
Diagnostic(stage, severity, ref, message, listed) ==
    [stage |-> stage, severity |-> severity, ref |-> ref, message |-> message, listed |-> listed]

\* faulty variant: every available pin is listed
HeadAll(s) == s

\* available_pins[:10]
Head10(s) == SubSeq(s, 1, IF Len(s) < MaxListedPins THEN Len(s) ELSE MaxListedPins)

NoPos == [found |-> FALSE, x |-> 0, y |-> 0]

\* lookup_pin_coords: the coordinate (or None) and the diagnostics list after the call
lookup_pin_coords(ref, pin_name, ref_index, symbols, diagnostics) ==
    IF ref \notin DOMAIN ref_index
    THEN [pos |-> NoPos,
          diagnostics |-> Append(diagnostics,
              Diagnostic("writer", "error", ref, "Component not found in schematic", <<>>))]
    ELSE Let(get_pin_locations_compat(symbols[ref_index[ref]]), LAMBDA pin_locations :
            IF Len(pin_locations) = 0
            THEN [pos |-> NoPos,
                  diagnostics |-> Append(diagnostics,
                      Diagnostic("writer", "warning", ref, "Pin coordinates not yet available", <<>>))]
            ELSE IF DictHas(pin_locations, pin_name)
            THEN [pos |-> [found |-> TRUE,
                           x |-> DictGet(pin_locations, pin_name)[1],
                           y |-> DictGet(pin_locations, pin_name)[2]],
                  diagnostics |-> diagnostics]
            ELSE [pos |-> NoPos,
                  diagnostics |-> Append(diagnostics,
                      Diagnostic("writer", "error", ref, "Pin not found",
                                 Head10(DictKeys(pin_locations))))])

\* ------------------------------------------------------------------ plan
NoCoord == <<Num(0), Num(0)>>

AddComponent(ref, symbol, value, at, rot, fields) ==
    [op |-> "add_component", ref |-> ref, symbol |-> symbol, value |-> value, at |-> at,
     rot |-> rot, fields |-> fields, from_ |-> <<>>, to |-> <<>>, net |-> <<>>]

Wire(from_, to) ==
    [op |-> "wire", ref |-> <<>>, symbol |-> <<>>, value |-> <<>>, at |-> NoCoord,
     rot |-> 0, fields |-> {}, from_ |-> from_, to |-> to, net |-> <<>>]

Label(net, at) ==
    [op |-> "label", ref |-> <<>>, symbol |-> <<>>, value |-> <<>>, at |-> at,
     rot |-> 0, fields |-> {}, from_ |-> <<>>, to |-> <<>>, net |-> net]

DeviceR == <<"D","e","v","i","c","e",":","R">>
DeviceLED == <<"D","e","v","i","c","e",":","L","E","D">>
Traversal == <<".",".","/","l","i","b",":","R">>
R1 == <<"R","1">>
R9 == <<"R","9">>
D1 == <<"D","1">>
U1 == <<"U","1">>

\* The operations a plan is drawn from
CandidateOps ==
    { AddComponent(R1, DeviceR, <<"1","k">>, <<Num(10000), Num(6000)>>, 0, {}),
      AddComponent(D1, DeviceLED, <<>>, <<Num(12000), Num(6000)>>, 90, {<<"Footprint", "LED">>}),
      AddComponent(R1, Traversal, <<"1","k">>, <<Num(10000), Num(6000)>>, 0, {}),
      AddComponent(D1, DeviceLED, <<"R","E","D">>, <<NaN, Num(6000)>>, 0, {}),
      Wire(<<"R","1",":","2">>, <<"D","1",":","1">>),
      Wire(<<"U","1",":","V","C","C">>, <<"U","1",":","9","9">>),
      Wire(<<"R","1",":","1">>, <<"d","1",":","1">>),
      Wire(<<"R","1">>, <<":","1">>),
      Wire(<<"R","9",":","1">>, <<"U","1",":","1","0">>),
      Label(<<"V","C","C">>, <<Num(7620), Num(5080)>>),
      Label(<<"V","C","C">>, <<PosInf, Num(0)>>) }

PlanVersions == {PLAN_SCHEMA_VERSION, PLAN_SCHEMA_VERSION + 1}

Plans ==
    { [plan_version |-> v, ops |-> ops] :
        v \in PlanVersions, ops \in UNION { [1..n -> CandidateOps] : n \in 0..MaxOps } }

\* The three-operation plans of the end-to-end scenario and of the golden
\* fixture tests
R1At == <<Num(10000), Num(6000)>>
D1At == <<Num(12000), Num(6000)>>

EndToEndOps ==
    << AddComponent(R1, DeviceR, <<>>, R1At, 0, {}),
       AddComponent(D1, DeviceLED, <<>>, D1At, 0, {}),
       Wire(<<"R","1",":","2">>, <<"D","1",":","1">>) >>

EndToEndOpsWithValues ==
    << AddComponent(R1, DeviceR, <<"1","k">>, R1At, 0, {}),
       AddComponent(D1, DeviceLED, <<"R","E","D">>, D1At, 0, {}),
       Wire(<<"R","1",":","2">>, <<"D","1",":","1">>) >>

GoldenLabelOps ==
    << AddComponent(R1, DeviceR, <<"1","k">>, R1At, 0, {}),
       AddComponent(D1, DeviceLED, <<"R","E","D">>, D1At, 0, {}),
       Label(<<"V","C","C">>, <<Num(9000), Num(6000)>>) >>

\* plans that put wires and labels behind an added or a refused component
AddWireWireOps ==
    << AddComponent(R1, DeviceR, <<>>, R1At, 0, {}),
       Wire(<<"R","1",":","2">>, <<"D","1",":","1">>),
       Wire(<<"R","1",":","1">>, <<"D","1",":","2">>) >>

AddLabelWireOps ==
    << AddComponent(R1, DeviceR, <<>>, R1At, 0, {}),
       Label(<<"V","C","C">>, <<Num(9000), Num(6000)>>),
       Wire(<<"R","1",":","2">>, <<"D","1",":","1">>) >>

RefusedAddWireOps ==
    << AddComponent(R1, Traversal, <<>>, R1At, 0, {}),
       Label(<<"V","C","C">>, <<Num(9000), Num(6000)>>),
       Wire(<<"R","1",":","2">>, <<"D","1",":","1">>) >>

\* the same reference added twice, then wired
DuplicateRefOps ==
    << AddComponent(R1, DeviceR, <<>>, R1At, 0, {}),
       AddComponent(R1, DeviceR, <<>>, D1At, 0, {}),
       Wire(<<"R","1",":","1">>, <<"R","1",":","2">>) >>

\* wires with a malformed source, a malformed target and both
MalformedWireOps ==
    << Wire(<<"r","1",":","1">>, <<"D","1",":","1">>),
       Wire(<<"D","1",":","1">>, <<"D","1">>),
       Wire(<<"R","1">>, <<":","1">>) >>

ScenarioPlans ==
    { [plan_version |-> v, ops |-> ops] :
        v \in PlanVersions,
        ops \in {EndToEndOps, EndToEndOpsWithValues, GoldenLabelOps,
                 AddWireWireOps, AddLabelWireOps, RefusedAddWireOps, DuplicateRefOps,
                 MalformedWireOps} }

\* ----------------------------------------------------- initial documents
NoNative == [kind |-> "absent", map |-> <<>>]

Symbol(reference, allReferences, at, native, pin) ==
    [Reference |-> reference, allReferences |-> allReferences, at |-> at,
     get_pin_locations |-> native, pin |-> pin,
     Value |-> <<>>, rotation |-> 0, rot |-> 0, fields |-> {}]

Pin(number, name, location) == [number |-> number, name |-> name, location |-> location]

\* a twelve-pin part loaded from a file: pins come from its pin collection
U1Pins ==
    << Pin(<<"1">>, <<"V","C","C">>, At(4572, 4826)), Pin(<<"2">>, <<"G","N","D">>, At(4572, 5080)),
       Pin(<<"3">>, <<"~">>, At(4572, 5334)),  Pin(<<"4">>, <<"~">>, At(4572, 5588)),
       Pin(<<"5">>, <<"~">>, At(4572, 5842)),  Pin(<<"6">>, <<>>, At(4572, 6096)),
       Pin(<<"7">>, <<"~">>, At(5588, 6096)),  Pin(<<"8">>, <<"~">>, At(5588, 5842)),
       Pin(<<"9">>, <<"~">>, At(5588, 5588)),  Pin(<<"1","0">>, <<"~">>, At(5588, 5334)),
       Pin(<<"1","1">>, <<"~">>, At(5588, 5080)), Pin(<<"1","2">>, <<"~">>, NoAt) >>

LoadedSymbols ==
    << Symbol([has |-> TRUE, value |-> U1], <<>>, At(5080, 5080), NoNative, U1Pins),
       Symbol([has |-> FALSE, value |-> None], << <<"r","e","f","=","R","9">> >>, NoAt, NoNative, <<>>),
       Symbol([has |-> FALSE, value |-> None], <<>>, At(2540, 2540), NoNative, <<>>),
       Symbol([has |-> TRUE, value |-> D1], <<>>, At(12700, 6096),
              [kind |-> "map", map |-> << [key |-> <<"1">>, coord |-> <<12319, 6096>>],
                                          [key |-> <<"2">>, coord |-> <<13081, 6096>>] >>], <<>>),
       Symbol([has |-> TRUE, value |-> <<>>], << <<"R","9">> >>, At(0, 0), NoNative, <<>>) >>

Document(symbol, hasWire) ==
    [symbol |-> symbol, wire |-> [has |-> hasWire, items |-> <<>>], label |-> <<>>]

\* the document handed to apply_plan and what the installed kicad-skip offers
Environments ==
    { [doc |-> Document(<<>>, TRUE), from_lib |-> "callable"],
      [doc |-> Document(LoadedSymbols, TRUE), from_lib |-> "callable"],
      [doc |-> Document(LoadedSymbols, FALSE), from_lib |-> "callable"],
      [doc |-> Document(LoadedSymbols, TRUE), from_lib |-> "absent"],
      [doc |-> Document(<<>>, TRUE), from_lib |-> "notcallable"] }

\* what Symbol.from_lib hands back: the new symbol's pin data depends on
\* whether the library definition is attached to it
FreshKinds == {"unloaded", "loaded", "empty"}

NativeOf(kind, x, y) ==
    IF kind = "loaded"
    THEN [kind |-> "map", map |-> << [key |-> <<"1">>, coord |-> <<x, y - 381>>],
                                     [key |-> <<"2">>, coord |-> <<x, y + 381>>] >>]
    ELSE IF kind = "empty" THEN [kind |-> "map", map |-> <<>>]
    ELSE [kind |-> "raises", map |-> <<>>]

from_lib(reference, x, y, kind) ==
    Symbol([has |-> TRUE, value |-> reference], <<>>, At(x, y), NativeOf(kind, x, y), <<>>)

\* the setters of a created symbol that may raise
Setters == {"Value", "rotation", "rot", "fields"}
FailureSets == {{}, {"Value"}, {"rotation"}, {"rotation", "rot"}, {"fields"}}

\* ----------------------------------------------------------------- state
VARIABLES plan, env, doc, doc0, diagnostics, affected_refs, ref_index,
          components_added, pc, i, result, builds, last, trace, ui, call

vars == <<plan, env, doc, doc0, diagnostics, affected_refs, ref_index,
          components_added, pc, i, result, builds, last, trace, ui, call>>

\* the state of apply_plan alone
apply_vars == <<plan, env, doc, doc0, diagnostics, affected_refs, ref_index,
                components_added, pc, i, result, builds, last, trace>>

\* what one operation did, kept for the properties below
NoNote == [created |-> FALSE, failed |-> {}, lookups |-> <<>>, docfail |-> FALSE]

NoLast == [i |-> 0, op |-> "none", nd |-> 0, nrefs |-> 0, symbols |-> 0, wires |-> 0,
           labels |-> 0, stale |-> FALSE, builds |-> 0, note |-> NoNote]

NoResult == [returned |-> FALSE, success |-> FALSE, diagnostics |-> <<>>, affected_refs |-> <<>>]

ApplyResult(success, diags, refs) ==
    [returned |-> TRUE, success |-> success, diagnostics |-> diags, affected_refs |-> refs]

\* ApplyResult.has_errors
has_errors(r) == \E k \in 1..Len(r.diagnostics) : r.diagnostics[k].severity = "error"

\* the local state of one apply_plan call, as the operation handlers see it
Locals == [doc |-> doc, diagnostics |-> diagnostics, affected_refs |-> affected_refs,
           ref_index |-> ref_index, components_added |-> components_added,
           builds |-> builds, note |-> NoNote, raised |-> FALSE]

Error(st, ref, message) ==
    [st EXCEPT !.diagnostics = Append(@, Diagnostic("writer", "error", ref, message, <<>>))]

\* faulty variant: a successful operation leaves no diagnostic
Info_silent(st, ref, message) == st

Info(st, ref, message) ==
    [st EXCEPT !.diagnostics = Append(@, Diagnostic("writer", "info", ref, message, <<>>))]

\* ---------------------------------------------------------- add_component
\* the setters that do raise for this operation, given the ones that would
RaisedSetters(op, fail) ==
    IF Len(op.value) > 0 /\ "Value" \in fail THEN {"Value"}
    ELSE (IF op.rot # 0 THEN fail \cap (IF "rotation" \in fail THEN {"rotation", "rot"} ELSE {}) ELSE {})
         \cup (IF op.fields # {} THEN fail \cap {"fields"} ELSE {})

\* `if op.value: sym.Value = op.value` -- not guarded: a failure leaves the try block
set_value(sym, op, fail) ==
    IF Len(op.value) = 0 THEN [sym |-> sym, exc |-> FALSE]
    ELSE IF "Value" \in fail THEN [sym |-> sym, exc |-> TRUE]
    ELSE [sym |-> [sym EXCEPT !.Value = op.value], exc |-> FALSE]

\* rotation: the first of the attributes "rotation", "rot" that accepts the value
set_rotation(sym, op, fail) ==
    IF op.rot = 0 THEN sym
    ELSE IF "rotation" \notin fail THEN [sym EXCEPT !.rotation = op.rot]
    ELSE IF "rot" \notin fail THEN [sym EXCEPT !.rot = op.rot]
    ELSE sym

\* additional fields, each one best-effort
set_fields(sym, op, fail) ==
    IF "fields" \in fail THEN sym ELSE [sym EXCEPT !.fields = op.fields]

\* the statements of the try block once the coordinate is valid;
\* exc tells that an exception left the block
create_component(st, op, from_lib_state, lib) ==
    LET c == validate_coordinate(op.at)
        x == snap_to_grid(c.x)
        y == snap_to_grid(c.y)
    IN
       IF from_lib_state = "notcallable" THEN [st |-> st, exc |-> TRUE]
       ELSE IF lib.raises
       THEN [st |-> [st EXCEPT !.note.docfail = TRUE], exc |-> TRUE]
       ELSE LET sym0 == from_lib(op.ref, x, y, lib.kind)
                v == set_value(sym0, op, lib.fail)
                made == [st EXCEPT !.note.created = TRUE,
                                   !.note.failed = RaisedSetters(op, lib.fail)]
            IN IF v.exc
               THEN [st |-> [made EXCEPT !.doc.symbol = Append(@, v.sym)], exc |-> TRUE]
               ELSE LET sym == set_fields(set_rotation(v.sym, op, lib.fail), op, lib.fail)
                        added == [made EXCEPT !.doc.symbol = Append(@, sym),
                                              !.affected_refs = Append(@, op.ref),
                                              !.components_added = TRUE]
                    IN [st |-> Info(added, op.ref, "Added"), exc |-> FALSE]

\* faulty variant: the except clause lets the exception go on
add_component_reraise(t, op) ==
    IF t.exc THEN [t.st EXCEPT !.raised = TRUE] ELSE t.st

\* `except Exception as e` of the add_component branch
add_component_except(t, op) ==
    IF t.exc THEN Error(t.st, op.ref, "Failed to add component") ELSE t.st

\* the try block from the coordinate check on, and its except clause
try_create(st, op, from_lib_state, lib) ==
    Let(create_component(st, op, from_lib_state, lib), LAMBDA t : add_component_except(t, op))

\* faulty variant: the symbol string goes to the library unvalidated
add_component_unvalidated(st, op, from_lib_state, lib) ==
    IF from_lib_state = "absent"
    THEN add_component_except([st |-> st, exc |-> TRUE], op)
    ELSE IF ~validate_coordinate(op.at).valid
    THEN Error(st, op.ref, "Invalid coordinate")
    ELSE try_create(st, op, from_lib_state, lib)

add_component(st, op, from_lib_state, lib) ==
    IF ~validate_symbol_name(op.symbol).valid
    THEN Error(st, op.ref, "Invalid symbol name")
    ELSE IF from_lib_state = "absent"
    THEN add_component_except([st |-> st, exc |-> TRUE], op)
    ELSE IF ~validate_coordinate(op.at).valid
    THEN Error(st, op.ref, "Invalid coordinate")
    ELSE try_create(st, op, from_lib_state, lib)

\* ------------------------------------------------------------------ wire
\* faulty variant: the index built at the start is never rebuilt
rebuild_never(st) == st

\* faulty variant: the index is rebuilt at every wire
rebuild_always(st) ==
    [st EXCEPT !.ref_index = build_ref_index(st.doc.symbol),
               !.components_added = FALSE,
               !.builds = @ + 1]

\* `if components_added:` rebuild at the head of the wire branch
rebuild_if_stale(st) ==
    IF st.components_added
    THEN [st EXCEPT !.ref_index = build_ref_index(st.doc.symbol),
                    !.components_added = FALSE,
                    !.builds = @ + 1]
    ELSE st

\* record of one lookup_pin_coords call: its arguments, the coordinate it
\* returned and the diagnostics it appended
Looked(ref, pin_name, index, before, l) ==
    [ref |-> ref, pin |-> pin_name, index |-> index, pos |-> l.pos,
     appended |-> SubSeq(l.diagnostics, Len(before) + 1, Len(l.diagnostics))]

\* faulty variant: the two points of the wire in the wrong order
place_wire_swapped(st, from_ref, to_ref, from_pos, to_pos, wire_raises) ==
    IF ~st.doc.wire.has
    THEN Error(st, from_ref, "Wire collection not available in schematic")
    ELSE IF wire_raises
    THEN Error([st EXCEPT !.note.docfail = TRUE], from_ref, "Wire placement failed")
    ELSE LET w == [pts |-> << <<to_pos.x, to_pos.y>>, <<from_pos.x, from_pos.y>> >>]
             placed == [st EXCEPT !.doc.wire.items = Append(@, w),
                                  !.affected_refs = @ \o <<from_ref, to_ref>>]
         IN Info(placed, from_ref, "Connected wire")

\* `if from_pos and to_pos:` block
place_wire(st, from_ref, to_ref, from_pos, to_pos, wire_raises) ==
    IF ~st.doc.wire.has
    THEN Error(st, from_ref, "Wire collection not available in schematic")
    ELSE IF wire_raises
    THEN Error([st EXCEPT !.note.docfail = TRUE], from_ref, "Wire placement failed")
    ELSE LET w == [pts |-> << <<from_pos.x, from_pos.y>>, <<to_pos.x, to_pos.y>> >>]
             placed == [st EXCEPT !.doc.wire.items = Append(@, w),
                                  !.affected_refs = @ \o <<from_ref, to_ref>>]
         IN Info(placed, from_ref, "Connected wire")

\* both endpoints are well-formed: the two lookups, then the wire
connect(s1, f, t, wire_raises) ==
    Let(lookup_pin_coords(f.ref, f.pin, s1.ref_index, s1.doc.symbol, s1.diagnostics), LAMBDA l1 :
    Let(lookup_pin_coords(t.ref, t.pin, s1.ref_index, s1.doc.symbol, l1.diagnostics), LAMBDA l2 :
    Let([s1 EXCEPT !.diagnostics = l2.diagnostics,
                   !.note.lookups = <<Looked(f.ref, f.pin, s1.ref_index, s1.diagnostics, l1),
                                      Looked(t.ref, t.pin, s1.ref_index, l1.diagnostics, l2)>>],
        LAMBDA s2 :
            IF l1.pos.found /\ l2.pos.found
            THEN place_wire(s2, f.ref, t.ref, l1.pos, l2.pos, wire_raises)
            ELSE s2)))

wire(st, op, wire_raises) ==
    Let(rebuild_if_stale(st), LAMBDA s1 :
    Let(validate_wire_format(op.from_), LAMBDA f :
    Let(validate_wire_format(op.to), LAMBDA t :
        IF ~f.valid THEN Error(s1, None, "Invalid 'from' wire format")
        ELSE IF ~t.valid THEN Error(s1, None, "Invalid 'to' wire format")
        ELSE connect(s1, f, t, wire_raises))))

\* ----------------------------------------------------------------- label
\* faulty variant: a failure of the label collection is not caught
label_uncaught(st, op, label_raises) ==
    LET c == validate_coordinate(op.at) IN
    IF ~c.valid THEN Error(st, None, "Invalid label coordinate")
    ELSE IF label_raises
    THEN [st EXCEPT !.note.docfail = TRUE, !.raised = TRUE]
    ELSE LET lab == [value |-> op.net, at |-> <<snap_to_grid(c.x), snap_to_grid(c.y)>>]
         IN Info([st EXCEPT !.doc.label = Append(@, lab)], None, "Added label")

\* faulty variant: the net name of a placed label goes to affected_refs
label_recorded(st, op, label_raises) ==
    LET c == validate_coordinate(op.at) IN
    IF ~c.valid THEN Error(st, None, "Invalid label coordinate")
    ELSE IF label_raises
    THEN Error([st EXCEPT !.note.docfail = TRUE], None, "Label operation failed")
    ELSE LET lab == [value |-> op.net, at |-> <<snap_to_grid(c.x), snap_to_grid(c.y)>>]
         IN Info([st EXCEPT !.doc.label = Append(@, lab),
                            !.affected_refs = Append(@, op.net)], None, "Added label")

\* faulty variant: the label is put at the plan's coordinate as it came
label_unsnapped(st, op, label_raises) ==
    LET c == validate_coordinate(op.at) IN
    IF ~c.valid THEN Error(st, None, "Invalid label coordinate")
    ELSE IF label_raises
    THEN Error([st EXCEPT !.note.docfail = TRUE], None, "Label operation failed")
    ELSE LET lab == [value |-> op.net, at |-> <<c.x, c.y>>]
         IN Info([st EXCEPT !.doc.label = Append(@, lab)], None, "Added label")

label(st, op, label_raises) ==
    LET c == validate_coordinate(op.at) IN
    IF ~c.valid THEN Error(st, None, "Invalid label coordinate")
    ELSE IF label_raises
    THEN Error([st EXCEPT !.note.docfail = TRUE], None, "Label operation failed")
    ELSE LET lab == [value |-> op.net, at |-> <<snap_to_grid(c.x), snap_to_grid(c.y)>>]
         IN Info([st EXCEPT !.doc.label = Append(@, lab)], None, "Added label")

\* ------------------------------------------------------------ apply_plan
\* faulty variant: only plans older than the writer are turned away
version_mismatch_older(p) == p.plan_version < PLAN_SCHEMA_VERSION

version_mismatch(p) == p.plan_version # PLAN_SCHEMA_VERSION

\* the early return of the version gate
gate_result(diags) == ApplyResult(FALSE, diags, <<>>)

\* faulty variant: success looks at the last diagnostic only
exit_result_last(diags, refs) ==
    ApplyResult(Len(diags) = 0 \/ diags[Len(diags)].severity # "error", diags, refs)

\* faulty variant: a warning counts as a failure
exit_result_strict(diags, refs) ==
    ApplyResult(\A k \in 1..Len(diags) : diags[k].severity = "info", diags, refs)

\* the return at the end of apply_plan
exit_result(diags, refs) ==
    ApplyResult(~\E k \in 1..Len(diags) : diags[k].severity = "error", diags, refs)

\* where the loop goes after an operation: on to the next one
after_op(st) == IF st.raised THEN "raised" ELSE "loop"

\* --------------------------------------------------- calls of one function
\* A call of one of the validation and schema functions on its own: the
\* function, its argument and, once it has returned, what it returned.
Call(fn, arg) == [fn |-> fn, arg |-> arg, done |-> FALSE, ret |-> <<>>]

\* no such call is going on
NoCall == [fn |-> "none", arg |-> <<>>, done |-> TRUE, ret |-> <<>>]

Returned(c, ret) == [c EXCEPT !.done = TRUE, !.ret = ret]

\* strings of up to MaxStr characters over an alphabet
Strings(alphabet) == UNION { [1..n -> alphabet] : n \in 0..MaxStr }

Repeat(c, n) == [k \in 1..n |-> c]

\* ---------------------------------------------------------------- callers
\* The state of the caller of apply_plan: the schematic file and its backup,
\* the calls made so far, and what the caller reported.
NoFile == [has |-> FALSE, content |-> Document(<<>>, FALSE)]
File(content) == [has |-> TRUE, content |-> content]

Caller(caller, dry_run, gen, confirm) ==
    [caller |-> caller, dry_run |-> dry_run, gen |-> gen, confirm |-> confirm,
     pc |-> "main", original |-> NoFile, bak |-> NoFile, written |-> NoFile,
     events |-> <<>>, started |-> <<>>, exit |-> "none", report |-> <<>>]

\* apply_plan called directly
NoCaller == [Caller("none", FALSE, "ok", TRUE) EXCEPT !.pc = "none"]

Callers ==
    { Caller("cli", d, g, c) : d \in BOOLEAN, g \in {"ok", "error"}, c \in BOOLEAN }
    \cup { Caller(k, FALSE, g, TRUE) : k \in {"web", "desktop"}, g \in {"ok", "error"} }

Init ==
    /\ plan \in Plans
    /\ \E e \in Environments : env = [from_lib |-> e.from_lib] /\ doc = e.doc
    /\ doc0 = doc
    /\ diagnostics = <<>>
    /\ affected_refs = <<>>
    /\ ref_index = EmptyIndex
    /\ components_added = FALSE
    /\ pc = "start"
    /\ i = 1
    /\ result = NoResult
    /\ builds = 0
    /\ last = NoLast
    /\ trace = <<>>
    /\ ui = NoCaller
    /\ call = NoCall

VersionGate ==
    /\ pc = "start"
    /\ version_mismatch(plan)
    /\ diagnostics' = Append(diagnostics,
           Diagnostic("validator", "error", None, "Plan schema version mismatch", <<>>))
    /\ result' = gate_result(diagnostics')
    /\ pc' = "done"
    /\ UNCHANGED <<plan, env, doc, doc0, affected_refs, ref_index, components_added,
                   i, builds, last, trace>>

BuildIndexes ==
    /\ pc = "start"
    /\ ~version_mismatch(plan)
    /\ ref_index' = build_ref_index(doc.symbol)
    /\ builds' = builds + 1
    /\ components_added' = FALSE
    /\ pc' = "loop"
    /\ UNCHANGED <<plan, env, doc, doc0, diagnostics, affected_refs, i, result, last, trace>>

\* one iteration of `for op in plan.ops` has run and left the locals as out
Commit(out) ==
    /\ doc' = out.doc
    /\ diagnostics' = out.diagnostics
    /\ affected_refs' = out.affected_refs
    /\ ref_index' = out.ref_index
    /\ components_added' = out.components_added
    /\ builds' = out.builds
    /\ last' = [i |-> i, op |-> plan.ops[i].op, nd |-> Len(diagnostics),
                nrefs |-> Len(affected_refs), symbols |-> Len(doc.symbol),
                wires |-> Len(doc.wire.items), labels |-> Len(doc.label),
                stale |-> components_added, builds |-> builds, note |-> out.note]
    /\ trace' = Append(trace, i)
    /\ i' = i + 1
    /\ pc' = after_op(out)
    /\ UNCHANGED <<plan, env, doc0, result>>

AddComponentOp ==
    /\ pc = "loop" /\ i <= Len(plan.ops) /\ plan.ops[i].op = "add_component"
    /\ \E raises \in BOOLEAN, kind \in FreshKinds, fail \in FailureSets :
          \E out \in {add_component(Locals, plan.ops[i], env.from_lib,
                                    [raises |-> raises, kind |-> kind, fail |-> fail])} :
              Commit(out)

WireOp ==
    /\ pc = "loop" /\ i <= Len(plan.ops) /\ plan.ops[i].op = "wire"
    /\ \E wire_raises \in BOOLEAN :
          \E out \in {wire(Locals, plan.ops[i], wire_raises)} : Commit(out)

LabelOp ==
    /\ pc = "loop" /\ i <= Len(plan.ops) /\ plan.ops[i].op = "label"
    /\ \E label_raises \in BOOLEAN :
          \E out \in {label(Locals, plan.ops[i], label_raises)} : Commit(out)

Return ==
    /\ pc = "loop" /\ i > Len(plan.ops)
    /\ result' = exit_result(diagnostics, affected_refs)
    /\ pc' = "done"
    /\ UNCHANGED <<plan, env, doc, doc0, diagnostics, affected_refs, ref_index,
                   components_added, i, builds, last, trace>>

\* one step of apply_plan; the caller waits for it to return
Next ==
    /\ VersionGate \/ BuildIndexes \/ AddComponentOp \/ WireOp \/ LabelOp \/ Return
    /\ UNCHANGED <<ui, call>>

Spec == Init /\ [][Next]_vars

\* the loop is plain sequential code: every enabled step is eventually taken
FairSpec == Spec /\ WF_vars(Next)

\* apply_plan called with one of the scenario plans
ScenarioInit ==
    /\ plan \in ScenarioPlans
    /\ \E e \in Environments : env = [from_lib |-> e.from_lib] /\ doc = e.doc
    /\ doc0 = doc
    /\ diagnostics = <<>>
    /\ affected_refs = <<>>
    /\ ref_index = EmptyIndex
    /\ components_added = FALSE
    /\ pc = "start"
    /\ i = 1
    /\ result = NoResult
    /\ builds = 0
    /\ last = NoLast
    /\ trace = <<>>
    /\ ui = NoCaller
    /\ call = NoCall

ScenarioSpec == ScenarioInit /\ [][Next]_vars

\* ------------------------------------------------------- downstream tools
\* what running kicad-cli does: whether the binary is found, how its
\* `--version` probe ends and whether the tool run itself exits with 0
ToolRuns ==
    [found : BOOLEAN, version : {"ok", "timeout", "nonzero"}, zero : BOOLEAN]

\* check_kicad_cli: is_available
check_kicad_cli(tool) == tool.found /\ tool.version = "ok"

\* faulty variant: a failed run is reported like a missing tool
task_conflated(tool) ==
    IF ~check_kicad_cli(tool) THEN [exc |-> "FileNotFoundError", started |-> FALSE]
    ELSE IF ~tool.zero THEN [exc |-> "FileNotFoundError", started |-> TRUE]
    ELSE [exc |-> "none", started |-> TRUE]

\* run_erc, export_netlist, export_pdf of kaicad.kicad.tasks: the exception
\* raised ("none" for a normal return) and whether the subprocess was started
task(tool) ==
    IF ~check_kicad_cli(tool) THEN [exc |-> "FileNotFoundError", started |-> FALSE]
    ELSE IF ~tool.zero THEN [exc |-> "CalledProcessError", started |-> TRUE]
    ELSE [exc |-> "none", started |-> TRUE]

\* the same three functions of sidecar.tasks: no probe, and check=False
sidecar_task(tool) ==
    IF ~tool.found THEN [exc |-> "FileNotFoundError", started |-> FALSE]
    ELSE [exc |-> "none", started |-> TRUE]

\* ----------------------------------------------------------- caller steps
Report(level, text, exc) == [level |-> level, text |-> text, exc |-> exc]

\* the caller ends here; exit is the process exit code of the CLI
Ended(u, exit, report) ==
    [u EXCEPT !.pc = "end", !.exit = exit, !.report = Append(@, report)]

\* plan generation (cli --prompt) or plan parsing (web, desktop), up to the
\* call of the apply routine
start(u) ==
    IF u.caller = "cli"
    THEN IF u.gen = "error"
         THEN Ended(u, "1", Report("error", "Plan generation failed with errors.", "none"))
         ELSE IF ~u.dry_run /\ ~u.confirm THEN [u EXCEPT !.pc = "end", !.exit = "0"]
         ELSE [u EXCEPT !.pc = "read"]
    ELSE IF u.gen = "error"
         THEN Ended(u, "none", Report("error", "Invalid plan JSON", "Exception"))
         ELSE [u EXCEPT !.pc = "read"]

\* faulty variant: the result of apply_plan is not looked at before writing
check_result_unchecked(u, r) ==
    IF u.caller = "cli" /\ u.dry_run
    THEN Ended(u, "0", Report("info", "DRY RUN: Changes not written to file.", "none"))
    ELSE [u EXCEPT !.pc = "backup"]

\* `if not result.success:` and `if dry_run:` after apply_plan returned
check_result(u, r) ==
    IF ~r.success
    THEN Ended(u, IF u.caller = "cli" THEN "1" ELSE "none",
               Report("error", "Plan application failed", "none"))
    ELSE IF u.caller = "cli" /\ u.dry_run
    THEN Ended(u, "0", Report("info", "DRY RUN: Changes not written to file.", "none"))
    ELSE [u EXCEPT !.pc = "backup"]

\* an exception leaves run_erc, export_netlist or export_pdf: the CLI does not
\* catch it (traceback, exit code 1); web and desktop show "Apply failed: {e}"
tool_failed(u, exc) ==
    IF u.caller = "cli" THEN Ended(u, "1", Report("error", "Traceback", exc))
    ELSE Ended(u, "none", Report("error", "Apply failed", exc))

\* one of run_erc, export_netlist, export_pdf is called
run_tool(u, name, tool, next) ==
    LET r == IF u.caller = "desktop" THEN sidecar_task(tool) ELSE task(tool)
        called == [u EXCEPT !.events = Append(@, name),
                            !.started = IF r.started THEN Append(@, name) ELSE @]
    IN IF r.exc # "none" THEN tool_failed(called, r.exc) ELSE [called EXCEPT !.pc = next]

Start ==
    /\ ui.pc = "main"
    /\ ui' = start(ui)
    /\ UNCHANGED apply_vars

\* original = sch_path.read_text(); doc = sch.Schematic(str(sch_path))
ReadOriginal ==
    /\ ui.pc = "read"
    /\ ui' = [ui EXCEPT !.original = File(doc), !.pc = "apply"]
    /\ UNCHANGED apply_vars

\* result = apply_plan(doc, plan)
ApplyPlan ==
    /\ ui.pc = "apply"
    /\ Next

CheckResult ==
    /\ ui.pc = "apply" /\ pc = "done"
    /\ ui' = check_result(ui, result)
    /\ UNCHANGED apply_vars

\* bak.write_text(original)
WriteBackup ==
    /\ ui.pc = "backup"
    /\ ui' = [ui EXCEPT !.bak = ui.original, !.events = Append(@, "backup"), !.pc = "overwrite"]
    /\ UNCHANGED apply_vars

\* doc.to_file(str(sch_path)), and the success line of the CLI
Overwrite ==
    /\ ui.pc = "overwrite"
    /\ ui' = [ui EXCEPT !.written = File(doc), !.events = Append(@, "overwrite"),
                        !.report = IF ui.caller = "web" THEN @
                                   ELSE Append(@, Report("info", "Applied plan", "none")),
                        !.pc = "erc"]
    /\ UNCHANGED apply_vars

RunErc ==
    /\ ui.pc = "erc"
    /\ \E tool \in ToolRuns : ui' = run_tool(ui, "erc", tool, "netlist")
    /\ UNCHANGED apply_vars

ExportNetlist ==
    /\ ui.pc = "netlist"
    /\ \E tool \in ToolRuns : ui' = run_tool(ui, "netlist", tool, "pdf")
    /\ UNCHANGED apply_vars

ExportPdf ==
    /\ ui.pc = "pdf"
    /\ \E tool \in ToolRuns : ui' = run_tool(ui, "pdf", tool, "finish")
    /\ UNCHANGED apply_vars

\* the tools returned: sys.exit(0) of the CLI, the success flash of the web
\* action, the "Done" line of the desktop
Finish ==
    /\ ui.pc = "finish"
    /\ ui' = IF ui.caller = "cli" THEN [ui EXCEPT !.pc = "end", !.exit = "0"]
             ELSE Ended(ui, "none", Report("success", "Plan applied successfully", "none"))
    /\ UNCHANGED apply_vars

CallerInit ==
    /\ plan \in ScenarioPlans
    /\ \E e \in Environments : env = [from_lib |-> e.from_lib] /\ doc = e.doc
    /\ doc0 = doc
    /\ diagnostics = <<>>
    /\ affected_refs = <<>>
    /\ ref_index = EmptyIndex
    /\ components_added = FALSE
    /\ pc = "start"
    /\ i = 1
    /\ result = NoResult
    /\ builds = 0
    /\ last = NoLast
    /\ trace = <<>>
    /\ ui \in Callers
    /\ call = NoCall

CallerNext ==
    /\ \/ Start \/ ReadOriginal \/ ApplyPlan \/ CheckResult \/ WriteBackup \/ Overwrite
       \/ RunErc \/ ExportNetlist \/ ExportPdf \/ Finish
    /\ UNCHANGED call

CallerSpec == CallerInit /\ [][CallerNext]_vars

\* ------------------------------------------------ the functions on their own
\* symbol names handed to validate_symbol_name: short strings over letters,
\* the separator, dots, path separators, blanks, a line end and a character
\* outside the allowed set, and names around the length limit
SymbolAlphabet == {"R", "_", ":", ".", "/", "\\", " ", "\n", "$"}

SymbolInputs ==
    Strings(SymbolAlphabet)
    \cup { Repeat("A", 100) \o <<":">> \o Repeat("B", n) : n \in {98, 99, 100, 150} }

\* endpoint strings handed to validate_wire_format: short strings, the
\* endpoints of the tests, padded endpoints, and pins around the length limit
WireAlphabet == {"R", "1", ":", " ", "\n", "r"}

WireInputs ==
    Strings(WireAlphabet)
    \cup { <<"U","1",":","P","I","N",":","A",":","1">>, <<"U","5",":","V","C","C">>,
           <<"R","-","5",":","1">>, <<" ","R","1"," ",":"," ","1"," ">>,
           <<"R","1","\n",":","1">>, <<"R","1",":","1","\n">> }
    \cup { <<"R","1",":">> \o Repeat("x", n) : n \in {49, 50, 51} }
    \cup { <<"R","1",":"," ">> \o Repeat("x", n) : n \in {49, 50} }

\* values handed to validate_coordinate: lists and tuples of up to MaxTuple
\* elements (floats at and beyond the limit, nan, inf, ints, strings, None)
\* and values that are neither a list nor a tuple
CoordinateElements ==
    { Num(10050), Num(MAX_COORD), Num(-MAX_COORD), Num(MAX_COORD + 1), Num(-MAX_COORD - 1),
      NaN, PosInf, IntValue(5000), BigInt, StrNum(150), StrNaN, StrBad, NoneValue }

CoordinateInputs ==
    { Value(t, items) :
        t \in {"list", "tuple"},
        items \in UNION { [1..n -> CoordinateElements] : n \in 0..MaxTuple } }
    \cup { Value(t, <<>>) : t \in {"str", "NoneType", "int", "float"} }

\* values handed to snap_to_grid, in hundredths of a millimetre: every value
\* of up to MaxSnap (130 mm) either side of zero and the largest coordinates
\* validate_coordinate lets through
SnapInputs ==
    (-MaxSnap..MaxSnap) \cup (MAX_COORD - GRID_MM..MAX_COORD) \cup (-MAX_COORD..GRID_MM - MAX_COORD)

\* a first call of snap_to_grid on x, or a second one on what the first returned
Snap(x, first, again) == [x |-> x, first |-> first, again |-> again]

\* ------------------------------------------------------- symbols looked up
\* pins none of which has a location
BarePins == << Pin(<<"1">>, <<"A">>, NoAt), Pin(<<"2">>, <<"K">>, NoAt) >>

\* The symbols a wire endpoint can name: the three kinds Symbol.from_lib hands
\* back, symbols read from a file with and without a native query, with no
\* pins, with pins that have no location and with located pins, and one
\* without a position
PinSymbols ==
    { from_lib(R1, 9906, 6096, kind) : kind \in FreshKinds }
    \cup { Symbol([has |-> TRUE, value |-> R1], <<>>, at, native, pin) :
              at \in {At(9906, 6096), NoAt},
              native \in {NoNative, NativeOf("unloaded", 9906, 6096), NativeOf("empty", 9906, 6096)},
              pin \in {<<>>, BarePins, U1Pins} }

PinNames == { <<"1">>, <<"2">>, <<"3">>, <<"V","C","C">> }

\* one lookup_pin_coords call for pin pin_name of R1, which is sym
Lookup(sym, pin_name) == [sym |-> sym, pin_name |-> pin_name]

\* --------------------------------------------------------- API key mask
\* an API key: None or a string
NoKey == [k |-> "none", s |-> <<>>]

Key(s) == [k |-> "str", s |-> s]

\* _mask_api_key
mask_api_key(api_key) ==
    IF api_key.k = "none" \/ Len(api_key.s) = 0
    THEN <<>>
    ELSE IF Len(api_key.s) <= 8
    THEN <<"*","*","*","*">>
    ELSE SubSeq(api_key.s, 1, 7) \o <<"*","*","*","*">>
         \o SubSeq(api_key.s, Len(api_key.s) - 3, Len(api_key.s))

\* the keys masked: None and the keys of 0 to MaxKey characters cut from
\* the start of a sample key
SampleKey ==
    <<"s","k","-","a","b","c","d","e","f","g","h","i","j","k","l","m","n","o","p","q">>

KeyInputs == {NoKey} \cup { Key(SubSeq(SampleKey, 1, n)) : n \in 0..MaxKey }

\* ------------------------------------------------- plans as JSON and back
\* A dict is the sequence of its <<key, value>> items in insertion order
Has(obj, key) == \E n \in 1..Len(obj) : obj[n][1] = key

Get(obj, key) == obj[CHOOSE n \in 1..Len(obj) : obj[n][1] = key][2]

\* Wire.from_ = Field(alias="from"): the key the field is dumped under
from_key(by_alias) == IF by_alias THEN "from" ELSE "from_"

\* model_dump of one operation: the fields its model declares, in declaration
\* order, defaults included; a Tuple[float, float] stays a tuple
dump_op(op, by_alias) ==
    IF op.op = "add_component"
    THEN << <<"op", op.op>>, <<"ref", op.ref>>, <<"symbol", op.symbol>>, <<"value", op.value>>,
            <<"at", Value("tuple", op.at)>>, <<"rot", op.rot>>, <<"fields", op.fields>> >>
    ELSE IF op.op = "wire"
    THEN << <<"op", op.op>>, <<from_key(by_alias), op.from_>>, <<"to", op.to>> >>
    ELSE << <<"op", op.op>>, <<"net", op.net>>, <<"at", Value("tuple", op.at)>> >>

\* Plan.model_dump(by_alias=...); constraints is left at its default {} by
\* every plan here
model_dump(p, by_alias) ==
    << <<"plan_version", p.plan_version>>,
       <<"ops", [n \in 1..Len(p.ops) |-> dump_op(p.ops[n], by_alias)]>>,
       <<"constraints", {}>> >>

\* what json.dumps and json.loads do to the coordinates of a dumped plan:
\* a tuple is written as an array, an array is read as a list (the dicts,
\* strings and numbers, nan and inf included, come back as they were)
Arrays(data, type) ==
    [m \in 1..Len(data) |->
        IF data[m][1] = "ops"
        THEN <<"ops", [n \in 1..Len(data[m][2]) |->
                          [k \in 1..Len(data[m][2][n]) |->
                              IF data[m][2][n][k][1] = "at"
                              THEN <<"at", Value(type, data[m][2][n][k][2].items)>>
                              ELSE data[m][2][n][k]]]>>
        ELSE data[m]]

dumps(data) == Arrays(data, "array")

loads(text) == Arrays(text, "list")

\* validation of a Tuple[float, float] field
validate_at(obj) ==
    /\ Has(obj, "at")
    /\ Get(obj, "at").type \in {"list", "tuple"}
    /\ Len(Get(obj, "at").items) = 2

\* validation of one operation by the model its "op" names: required fields
\* must be there, rot and fields have defaults, Wire takes its source under
\* the alias and (populate_by_name) under the field name; other keys are ignored
valid_op(obj) ==
    /\ Has(obj, "op")
    /\ \/ /\ Get(obj, "op") = "add_component"
          /\ Has(obj, "ref") /\ Has(obj, "symbol") /\ Has(obj, "value")
          /\ validate_at(obj)
       \/ /\ Get(obj, "op") = "wire"
          /\ Has(obj, "from") \/ Has(obj, "from_")
          /\ Has(obj, "to")
       \/ /\ Get(obj, "op") = "label"
          /\ Has(obj, "net")
          /\ validate_at(obj)

validate_op(obj) ==
    IF Get(obj, "op") = "add_component"
    THEN AddComponent(Get(obj, "ref"), Get(obj, "symbol"), Get(obj, "value"),
                      Get(obj, "at").items,
                      IF Has(obj, "rot") THEN Get(obj, "rot") ELSE 0,
                      IF Has(obj, "fields") THEN Get(obj, "fields") ELSE {})
    ELSE IF Get(obj, "op") = "wire"
    THEN Wire(IF Has(obj, "from") THEN Get(obj, "from") ELSE Get(obj, "from_"), Get(obj, "to"))
    ELSE Label(Get(obj, "net"), Get(obj, "at").items)

\* Plan.model_validate(data): the plan, or a ValidationError
model_validate(data) ==
    IF Has(data, "ops") /\ \A n \in 1..Len(Get(data, "ops")) : valid_op(Get(data, "ops")[n])
    THEN [valid |-> TRUE,
          plan |-> [plan_version |-> IF Has(data, "plan_version")
                                     THEN Get(data, "plan_version")
                                     ELSE PLAN_SCHEMA_VERSION,
                    ops |-> [n \in 1..Len(Get(data, "ops")) |->
                                validate_op(Get(data, "ops")[n])]]]
    ELSE [valid |-> FALSE, plan |-> [plan_version |-> PLAN_SCHEMA_VERSION, ops |-> <<>>]]

\* the plans that are serialized, and how: with by_alias=True by the command
\* line and the web application, without it by the desktop application
Serializations ==
    { [plan |-> p, by_alias |-> b] : p \in Plans \cup ScenarioPlans, b \in BOOLEAN }

\* apply_plan is not running
NoApply ==
    /\ plan = [plan_version |-> PLAN_SCHEMA_VERSION, ops |-> <<>>]
    /\ env = [from_lib |-> "absent"]
    /\ doc = Document(<<>>, FALSE)
    /\ doc0 = doc
    /\ diagnostics = <<>>
    /\ affected_refs = <<>>
    /\ ref_index = EmptyIndex
    /\ components_added = FALSE
    /\ pc = "none"
    /\ i = 1
    /\ result = NoResult
    /\ builds = 0
    /\ last = NoLast
    /\ trace = <<>>
    /\ ui = NoCaller

CallInit ==
    /\ NoApply
    /\ \/ \E s \in SymbolInputs : call = Call("validate_symbol_name", s)
       \/ \E s \in WireInputs : call = Call("validate_wire_format", s)
       \/ \E c \in CoordinateInputs : call = Call("validate_coordinate", c)
       \/ \E p \in Serializations : call = Call("model_dump", p)
       \/ \E x \in SnapInputs : call = Call("snap_to_grid", Snap(x, x, FALSE))
       \/ \E key \in KeyInputs : call = Call("_mask_api_key", key)
       \/ \E sym \in PinSymbols, pin_name \in PinNames :
             call = Call("lookup_pin_coords", Lookup(sym, pin_name))

ValidateSymbolName ==
    /\ call.fn = "validate_symbol_name" /\ ~call.done
    /\ call' = Returned(call, validate_symbol_name(call.arg))
    /\ UNCHANGED <<apply_vars, ui>>

ValidateWireFormat ==
    /\ call.fn = "validate_wire_format" /\ ~call.done
    /\ call' = Returned(call, validate_wire_format(call.arg))
    /\ UNCHANGED <<apply_vars, ui>>

ValidateCoordinate ==
    /\ call.fn = "validate_coordinate" /\ ~call.done
    /\ call' = Returned(call, validate_coordinate_any(call.arg))
    /\ UNCHANGED <<apply_vars, ui>>

\* json.dumps(plan.model_dump(by_alias=...)): the plan's JSON text
SerializePlan ==
    /\ call.fn = "model_dump" /\ ~call.done
    /\ call' = Returned(call, dumps(model_dump(call.arg.plan, call.arg.by_alias)))
    /\ UNCHANGED <<apply_vars, ui>>

\* Plan.model_validate(json.loads(text)) of the text just written
ParsePlan ==
    /\ call.fn = "model_dump" /\ call.done
    /\ call' = Returned(Call("model_validate", call), model_validate(loads(call.ret)))
    /\ UNCHANGED <<apply_vars, ui>>

SnapToGrid ==
    /\ call.fn = "snap_to_grid" /\ ~call.done
    /\ \E snapped \in snap_results(call.arg.x) : call' = Returned(call, snapped)
    /\ UNCHANGED <<apply_vars, ui>>

\* snap_to_grid of a value snap_to_grid returned
SnapAgain ==
    /\ call.fn = "snap_to_grid" /\ call.done /\ ~call.arg.again
    /\ \E snapped \in snap_results(call.ret) :
          call' = Returned(Call("snap_to_grid", Snap(call.ret, call.arg.first, TRUE)), snapped)
    /\ UNCHANGED <<apply_vars, ui>>

MaskApiKey ==
    /\ call.fn = "_mask_api_key" /\ ~call.done
    /\ call' = Returned(call, mask_api_key(call.arg))
    /\ UNCHANGED <<apply_vars, ui>>

\* lookup_pin_coords(R1, pin_name, {R1: sym}, pin_index, [])
LookupPinCoords ==
    /\ call.fn = "lookup_pin_coords" /\ ~call.done
    /\ call' = Returned(call, lookup_pin_coords(R1, call.arg.pin_name,
                                                [r \in {R1} |-> 1], <<call.arg.sym>>, <<>>))
    /\ UNCHANGED <<apply_vars, ui>>

CallNext ==
    \/ LookupPinCoords
    \/ MaskApiKey
    \/ SnapToGrid
    \/ SnapAgain
    \/ ValidateSymbolName
    \/ ValidateWireFormat
    \/ ValidateCoordinate
    \/ SerializePlan
    \/ ParsePlan

CallSpec == CallInit /\ [][CallNext]_vars

TypeOK ==
    /\ pc \in {"start", "loop", "done", "raised", "none"}
    /\ i \in 1..(Len(plan.ops) + 1)
    /\ builds \in 0..(Len(plan.ops) + 1)

\* ------------------------------------------------------------ properties
Matching == plan.plan_version = PLAN_SCHEMA_VERSION

\* what the last operation appended and added
Appended == SubSeq(diagnostics, last.nd + 1, Len(diagnostics))
NewRefs == SubSeq(affected_refs, last.nrefs + 1, Len(affected_refs))
SymbolsAdded == Len(doc.symbol) - last.symbols
WiresAdded == Len(doc.wire.items) - last.wires
LabelsAdded == Len(doc.label) - last.labels
EntriesAdded == SymbolsAdded + WiresAdded + LabelsAdded

CountSeverity(ds, sev) == Cardinality({k \in 1..Len(ds) : ds[k].severity = sev})

\* C1: under a version mismatch apply_plan returns success=false with exactly
\* one diagnostic (error, stage validator) and affected_refs=[]; no operation
\* runs, no index is built and the document's collections are unchanged.
C1_VersionGate ==
    ~Matching =>
        /\ trace = <<>> /\ builds = 0 /\ doc = doc0 /\ pc \in {"start", "done"}
        /\ pc = "done" =>
              /\ result.returned /\ result.success = FALSE
              /\ Len(result.diagnostics) = 1
              /\ result.diagnostics[1].severity = "error"
              /\ result.diagnostics[1].stage = "validator"
              /\ result.affected_refs = <<>>

C1_Witness ==
    /\ ~Matching /\ pc = "done" /\ result.returned
    /\ Len(plan.ops) > 0 /\ Len(doc0.symbol) > 0

\* C2: no exception leaves apply_plan: malformed input and every failure the
\* document raises end in a diagnostic of the operation they occur in, and the
\* call returns an ApplyResult.
InputMalformed(op) ==
    \/ op.op = "add_component" /\ (~validate_symbol_name(op.symbol).valid \/ ~validate_coordinate(op.at).valid)
    \/ op.op = "wire" /\ (~validate_wire_format(op.from_).valid \/ ~validate_wire_format(op.to).valid)
    \/ op.op = "label" /\ ~validate_coordinate(op.at).valid

OpFailed ==
    /\ last.i > 0
    /\ \/ last.note.docfail
       \/ last.note.failed # {}
       \/ InputMalformed(plan.ops[last.i])

C3_SuccessPredicate == result.returned => (result.success <=> ~has_errors(result))

C3_Witness ==
    /\ result.returned /\ Matching /\ ~result.success
    /\ CountSeverity(result.diagnostics, "info") > 0

\* C4: with a matching version every operation is processed exactly once, in
\* plan order, whatever fails on the way, and the call runs to completion.
InOrder == trace = [k \in 1..Len(trace) |-> k]

C4_RunsToCompletion ==
    /\ [](Matching => (InOrder /\ (pc \in {"done", "raised"} => Len(trace) = Len(plan.ops))))
    /\ <>(pc = "done")

C4_Witness ==
    /\ Matching /\ pc = "done" /\ Len(trace) = 2
    /\ diagnostics[1].severity = "error" /\ EntriesAdded = 1

\* C5: an operation that appends an error diagnostic added no entry to the
\* symbol, wire or label collection, and every entry an operation adds comes
\* with exactly one info diagnostic of that operation.
C5_ErrorMeansNoEffect ==
    last.i > 0 =>
        /\ CountSeverity(Appended, "error") > 0 => EntriesAdded = 0
        /\ EntriesAdded > 0 => (EntriesAdded = 1 /\ CountSeverity(Appended, "info") = 1)

\* C6: at every endpoint lookup of a Wire the ReferenceIndex maps every
\* reference carried by a symbol of the document.
Covers(index, symbols) ==
    \A s \in 1..Len(symbols) :
        Truthy(get_symbol_ref(symbols[s])) => get_symbol_ref(symbols[s]) \in DOMAIN index

C6_IndexFreshAtLookup ==
    \A k \in 1..Len(last.note.lookups) : Covers(last.note.lookups[k].index, doc.symbol)

\* C7 (as claimed): a Wire appends a wire if and only if both endpoints
\* resolve to coordinates; the wire is [from_coord, to_coord], both references
\* go to affected_refs with one info diagnostic; otherwise nothing is created.
WireDone == last.op = "wire"

BothResolved ==
    /\ Len(last.note.lookups) = 2
    /\ last.note.lookups[1].pos.found /\ last.note.lookups[2].pos.found

PtsOf(lookups) ==
    << <<lookups[1].pos.x, lookups[1].pos.y>>, <<lookups[2].pos.x, lookups[2].pos.y>> >>

WirePlacedAsLookedUp ==
    /\ WiresAdded = 1
    /\ doc.wire.items[Len(doc.wire.items)] = [pts |-> PtsOf(last.note.lookups)]
    /\ NewRefs = <<last.note.lookups[1].ref, last.note.lookups[2].ref>>
    /\ CountSeverity(Appended, "info") = 1

C7_WireIffResolved ==
    WireDone =>
        /\ BothResolved => WirePlacedAsLookedUp
        /\ ~BothResolved => (EntriesAdded = 0 /\ NewRefs = <<>>)

\* C7 (amended): a Wire appends a wire if and only if both endpoints resolve
\* and the document's wire collection exists and accepts the new wire; then the
\* wire is [from_coord, to_coord], both references go to affected_refs and the
\* operation appends exactly one info diagnostic.  In every other case no wire
\* and no other entity is created and affected_refs is unchanged; when both
\* endpoints resolved but the document refused, one error diagnostic is appended.
Placeable == BothResolved /\ doc.wire.has /\ ~last.note.docfail

C7_WireIffResolvedAndPlaced ==
    WireDone =>
        /\ SymbolsAdded = 0 /\ LabelsAdded = 0 /\ WiresAdded \in {0, 1}
        /\ Placeable => (WirePlacedAsLookedUp /\ Len(Appended) = 1)
        /\ ~Placeable => (WiresAdded = 0 /\ NewRefs = <<>>)
        /\ (BothResolved /\ ~Placeable) =>
              (Len(Appended) = 1 /\ Appended[1].severity = "error")

C7_Witness ==
    /\ WireDone /\ Placeable /\ WiresAdded = 1
    /\ doc.wire.items[Len(doc.wire.items)].pts[1] # doc.wire.items[Len(doc.wire.items)].pts[2]
    /\ last.stale

\* C8: lookup_pin_coords tells three failures apart, one diagnostic each and
\* no coordinate: reference not in the index (error, "not found"); no pin data
\* (warning); pin missing (error listing at most the first 10 available pins).
\* A pin that is present yields its coordinate and no diagnostic.
PinData(L) == get_pin_locations_compat(doc.symbol[L.index[L.ref]])

FirstTen(keys) == [k \in 1..(IF Len(keys) > 10 THEN 10 ELSE Len(keys)) |-> keys[k]]

LookupAsSpecified(L) ==
    IF L.ref \notin DOMAIN L.index
    THEN /\ ~L.pos.found /\ Len(L.appended) = 1
         /\ L.appended[1].severity = "error"
         /\ L.appended[1].message = "Component not found in schematic"
         /\ L.appended[1].ref = L.ref
    ELSE IF PinData(L) = <<>>
    THEN /\ ~L.pos.found /\ Len(L.appended) = 1
         /\ L.appended[1].severity = "warning"
    ELSE IF ~DictHas(PinData(L), L.pin)
    THEN /\ ~L.pos.found /\ Len(L.appended) = 1
         /\ L.appended[1].severity = "error"
         /\ L.appended[1].message = "Pin not found"
         /\ L.appended[1].listed = FirstTen(DictKeys(PinData(L)))
    ELSE /\ L.pos.found /\ L.appended = <<>>
         /\ <<L.pos.x, L.pos.y>> = DictGet(PinData(L), L.pin)

C8_LookupModes ==
    \A k \in 1..Len(last.note.lookups) : LookupAsSpecified(last.note.lookups[k])

C8_Witness ==
    /\ Len(last.note.lookups) = 2
    /\ last.note.lookups[1].pos.found
    /\ Len(last.note.lookups[2].appended) = 1
    /\ Len(last.note.lookups[2].appended[1].listed) = 10
    /\ Len(DictKeys(PinData(last.note.lookups[2]))) > 10

\* C9: an endpoint whose reference is indexed but has no pin data gives a
\* warning, not an error, and no wire; a result whose diagnostics hold no
\* error has success=true even when they hold warnings.
NoPinData(L) == L.ref \in DOMAIN L.index /\ PinData(L) = <<>>

C9_WarningKeepsSuccess ==
    /\ \A k \in 1..Len(last.note.lookups) :
          NoPinData(last.note.lookups[k]) =>
              /\ CountSeverity(last.note.lookups[k].appended, "warning") = 1
              /\ CountSeverity(last.note.lookups[k].appended, "error") = 0
              /\ WiresAdded = 0
    /\ (result.returned /\ CountSeverity(result.diagnostics, "error") = 0) => result.success

C9_Witness ==
    /\ result.returned /\ result.success
    /\ CountSeverity(result.diagnostics, "warning") > 0
    /\ \E k \in 1..Len(last.note.lookups) : NoPinData(last.note.lookups[k])

\* C10: once the symbol is created, a failure of setting its value, rotation
\* or a custom field is swallowed: the reference goes to affected_refs, an info
\* and no error diagnostic is appended, and the index is marked stale.
SetterFailed == last.op = "add_component" /\ last.note.created /\ last.note.failed # {}

C10_SetterFailureNotFatal ==
    SetterFailed =>
        /\ NewRefs = <<plan.ops[last.i].ref>>
        /\ CountSeverity(Appended, "info") = 1
        /\ CountSeverity(Appended, "error") = 0
        /\ components_added

\* C11 (as claimed): for a plan of one AddComponent with a malformed symbol
\* name followed by one valid Label, apply_plan returns success=false, the
\* label is appended to the label collection and the label is recorded in
\* affected_refs.
LocalRecoveryPlan ==
    /\ Matching /\ Len(plan.ops) = 2
    /\ plan.ops[1].op = "add_component" /\ ~validate_symbol_name(plan.ops[1].symbol).valid
    /\ plan.ops[2].op = "label" /\ validate_coordinate(plan.ops[2].at).valid

LabelPlaced == pc = "done" /\ last.i = 2 /\ ~last.note.docfail

LabelOf(op) ==
    [value |-> op.net,
     at |-> <<snap_to_grid(validate_coordinate(op.at).x),
              snap_to_grid(validate_coordinate(op.at).y)>>]

C11_LabelRecorded ==
    (LocalRecoveryPlan /\ LabelPlaced) =>
        /\ result.success = FALSE
        /\ doc.label = Append(doc0.label, LabelOf(plan.ops[2]))
        /\ result.affected_refs # <<>>

\* C11 (amended): for that plan apply_plan returns success=false and the label
\* is appended to the label collection with one info diagnostic, but a Label
\* records nothing in affected_refs, which is returned empty.
C11_LabelNotRecorded ==
    (LocalRecoveryPlan /\ LabelPlaced) =>
        /\ result.success = FALSE
        /\ doc.label = Append(doc0.label, LabelOf(plan.ops[2]))
        /\ CountSeverity(Appended, "info") = 1 /\ Len(Appended) = 1
        /\ result.affected_refs = <<>>

C11_Witness ==
    /\ LocalRecoveryPlan /\ LabelPlaced /\ result.returned
    /\ Len(doc.label) = 1 /\ doc.label[1].at = <<7620, 5080>>
    /\ diagnostics[1].severity = "error" /\ diagnostics[1].ref = plan.ops[1].ref

\* C12: the plan [AddComponent(R1, Device:R, at=[100,60]), AddComponent(D1,
\* Device:LED, at=[120,60]), Wire(R1:2 -> D1:1)] on an empty document that
\* supports symbol creation yields success=true, affected_refs
\* [R1, D1, R1, D1], two new symbols at the grid-snapped positions and exactly
\* one new wire from the pin coordinate of R1 pin 2 to that of D1 pin 1.
PinsOf(k) == get_pin_locations_compat(doc.symbol[k])

\* the document created both symbols and the wire, and the new symbols have pin data
EndToEndRun ==
    /\ plan = [plan_version |-> PLAN_SCHEMA_VERSION, ops |-> EndToEndOps]
    /\ doc0 = Document(<<>>, TRUE) /\ env.from_lib = "callable"
    /\ pc = "done" /\ Len(doc.symbol) = 2 /\ ~last.note.docfail
    /\ PinsOf(1) # <<>> /\ PinsOf(2) # <<>>

\* the new symbol has no pin data of its own: pins at x - 2.54 and x + 2.54
Unloaded(k) == doc.symbol[k].get_pin_locations.kind = "raises"

IsPrefix(s, t) == Len(s) <= Len(t) /\ SubSeq(t, 1, Len(s)) = s

\* a step that runs operation i appends its diagnostics behind all earlier ones
OwnSlice ==
    i' # i =>
        /\ i' = i + 1 /\ last'.i = i /\ last'.nd = Len(diagnostics)
        /\ Len(diagnostics') > Len(diagnostics)

C13_DiagnosticTrail ==
    /\ [][Matching => (IsPrefix(diagnostics, diagnostics') /\ OwnSlice)]_vars
    /\ []((Matching /\ last.i > 0) => Len(Appended) >= 1)
    /\ []((Matching /\ pc = "done") => (InOrder /\ result.diagnostics = diagnostics))

C13_Witness ==
    /\ Matching /\ pc = "done" /\ Len(plan.ops) = 2
    /\ last.nd = 1 /\ Len(Appended) = 2
    /\ diagnostics[1].severity = "info" /\ Appended[1].severity = "warning"

\* C14: in every caller the schematic file is overwritten only after
\* apply_plan returned success=true (in the CLI only when not in dry-run), the
\* backup of the pre-apply content is written before the overwrite, and ERC,
\* netlist export and PDF export are invoked after it, in that order; with
\* success=false neither file is written and no tool is run.
CallOrder == <<"backup", "overwrite", "erc", "netlist", "pdf">>

C14_PersistOnlyAfterSuccess ==
    /\ IsPrefix(ui.events, CallOrder)
    /\ ui.events # <<>> =>
          (result.returned /\ result.success /\ ~(ui.caller = "cli" /\ ui.dry_run))
    /\ ui.bak.has => ui.bak.content = doc0
    /\ ui.written.has => (ui.bak.has /\ ui.written.content = doc)
    /\ (result.returned /\ ~result.success) =>
          (ui.events = <<>> /\ ~ui.written.has /\ ~ui.bak.has)

C14_Witness ==
    /\ ui.pc = "end" /\ ui.events = CallOrder
    /\ ui.written.has /\ ui.written.content # doc0 /\ ui.bak.content = doc0

\* C15: the CLI run with --prompt exits with code 0 when the plan is applied
\* successfully (or a dry-run completes with a generated plan), and with a
\* non-zero code when plan generation reports an error or apply_plan reports
\* success=false.
CliEnded == ui.caller = "cli" /\ ui.pc = "end"

C15_CliExitCode ==
    CliEnded =>
        /\ ui.written.has => ui.exit = "0"
        /\ (ui.dry_run /\ result.returned /\ result.success) => ui.exit = "0"
        /\ ui.gen = "error" => ui.exit = "1"
        /\ (result.returned /\ ~result.success) => ui.exit = "1"

\* C16: after a successful apply that was persisted, the kaicad.kicad.tasks
\* functions signal a missing tool (FileNotFoundError, before the tool's
\* subprocess is started) and a tool that exits non-zero (CalledProcessError)
\* as two distinct outcomes, and what the CLI and the web caller report for
\* either differs from what they report for an apply with success=false.
Final == ui.report[Len(ui.report)]

ToolFailure ==
    /\ ui.caller \in {"cli", "web"} /\ ui.pc = "end"
    /\ ui.written.has /\ Len(ui.report) > 0 /\ Final.exc # "none"

LastTool == ui.events[Len(ui.events)]

WasStarted(name) == \E k \in 1..Len(ui.started) : ui.started[k] = name

Outcome(u) == [exit |-> u.exit, report |-> u.report[Len(u.report)]]

FailedApplyOutcome(caller) ==
    Outcome(check_result(Caller(caller, FALSE, "ok", TRUE), [success |-> FALSE]))

Count(s, c) == Cardinality({k \in 1..Len(s) : s[k] = c})

WellFormedSymbol(s) ==
    /\ Count(s, ":") = 1
    /\ Strip(SplitFirst(s, ":")[1]) # <<>> /\ Strip(SplitFirst(s, ":")[2]) # <<>>
    /\ ~HasDotDot(s) /\ ~HasChar(s, "/") /\ ~HasChar(s, "\\")
    /\ \A k \in 1..Len(s) : s[k] \in SymbolChars \cup {":"}
    /\ Len(s) <= 200

SymbolValidated == call.fn = "validate_symbol_name" /\ call.done

C17_SymbolNameAccepted ==
    SymbolValidated =>
        /\ call.ret.valid <=> WellFormedSymbol(call.arg)
        /\ call.ret.valid => call.ret.error = "None"
        /\ ~call.ret.valid => call.ret.error \notin {"None", ""}

\* C18 (as claimed): validate_wire_format(spec) returns valid exactly when spec
\* contains ':' and, split at the first ':' only, the reference part matches
\* ^[A-Z]+[0-9]+$ and the pin part is non-empty with length <= 50; on
\* acceptance it returns (ref, pin) equal to that split, on rejection a reason
\* and no parts.
IsReference(t) ==
    \E k \in 1..(Len(t) - 1) :
        /\ \A j \in 1..k : t[j] \in Upper
        /\ \A j \in (k + 1)..Len(t) : t[j] \in Digit

RefPart(s) == SubSeq(s, 1, FirstIndex(s, ":") - 1)
PinPart(s) == SubSeq(s, FirstIndex(s, ":") + 1, Len(s))

WireValidated == call.fn = "validate_wire_format" /\ call.done

NoParts == call.ret.error # "None" /\ call.ret.ref = None /\ call.ret.pin = None

C18_WireFormatAccepted ==
    WireValidated =>
        /\ call.ret.valid <=>
              /\ HasChar(call.arg, ":")
              /\ IsReference(RefPart(call.arg))
              /\ Len(PinPart(call.arg)) \in 1..50
        /\ call.ret.valid => (call.ret.ref = RefPart(call.arg) /\ call.ret.pin = PinPart(call.arg))
        /\ ~call.ret.valid => NoParts

\* C18 (amended): the two parts are taken with their surrounding whitespace
\* stripped: valid exactly when spec contains ':' and, split at the first ':'
\* only, the stripped reference part matches ^[A-Z]+[0-9]+$ and the pin part
\* is not blank and at most 50 long before stripping; on acceptance it returns
\* the stripped (ref, pin), on rejection a reason and no parts.
C18_WireFormatStripped ==
    WireValidated =>
        /\ call.ret.valid <=>
              /\ HasChar(call.arg, ":")
              /\ IsReference(Strip(RefPart(call.arg)))
              /\ Strip(PinPart(call.arg)) # <<>>
              /\ Len(PinPart(call.arg)) <= 50
        /\ call.ret.valid =>
              /\ call.ret.error = "None"
              /\ call.ret.ref = Strip(RefPart(call.arg))
              /\ call.ret.pin = Strip(PinPart(call.arg))
        /\ ~call.ret.valid => NoParts

C18_Witness ==
    /\ WireValidated /\ call.ret.valid
    /\ call.arg = <<" ","R","1"," ",":"," ","1"," ">>
    /\ call.ret.ref = R1 /\ call.ret.pin = <<"1">>

\* C19: validate_coordinate(value) returns valid exactly when value is a list
\* or tuple of exactly 2 elements that both convert to finite numbers
\* (non-numeric, NaN and +/-infinity are rejected) of magnitude at most
\* 1,000,000 (the bound itself is accepted); on acceptance it returns the
\* converted pair, on rejection a reason and no pair.
FiniteNumber(e) == e.k \in {"num", "int", "str_num"}

WithinLimit(e) == -100000000 <= e.v /\ e.v <= 100000000

AcceptableCoordinate(value) ==
    /\ value.type \in {"list", "tuple"}
    /\ Len(value.items) = 2
    /\ \A k \in 1..2 : FiniteNumber(value.items[k]) /\ WithinLimit(value.items[k])

CoordinateValidated == call.fn = "validate_coordinate" /\ call.done

C19_CoordinateAccepted ==
    CoordinateValidated =>
        /\ ~call.ret.raised
        /\ call.ret.valid <=> AcceptableCoordinate(call.arg)
        /\ call.ret.valid =>
              /\ call.ret.error = "None" /\ call.ret.pair
              /\ call.ret.x = call.arg.items[1].v /\ call.ret.y = call.arg.items[2].v
        /\ ~call.ret.valid => (call.ret.error # "None" /\ ~call.ret.pair)

\* C20: serializing a Plan to its JSON and re-parsing it yields a Plan equal
\* to the original (same plan_version, same number of operations, same
\* operation kinds and fields in the same order), and every Wire operation's
\* source endpoint is written under the key "from", never under "from_".
Serialized == call.fn = "model_dump" /\ call.done

Reparsed == call.fn = "model_validate" /\ call.done

WrittenOps(text) == Get(text, "ops")

SourceUnderFrom(text) ==
    \A n \in 1..Len(WrittenOps(text)) :
        Get(WrittenOps(text)[n], "op") = "wire" =>
            (Has(WrittenOps(text)[n], "from") /\ ~Has(WrittenOps(text)[n], "from_"))

SamePlan(p, q) ==
    /\ q.plan_version = p.plan_version
    /\ Len(q.ops) = Len(p.ops)
    /\ \A n \in 1..Len(p.ops) : q.ops[n] = p.ops[n]

C20_PlanRoundTrip ==
    /\ Serialized => SourceUnderFrom(call.ret)
    /\ Reparsed =>
          /\ call.ret.valid
          /\ SamePlan(call.arg.arg.plan, call.ret.plan)
          /\ SourceUnderFrom(call.arg.ret)

\* C21: snap_to_grid is idempotent and lands on the grid: snap(snap(x)) =
\* snap(x), and snap(x) is an integer multiple of the grid constant (2.54),
\* the multiple nearest to x (round(x / grid) * grid).
Snapped == call.fn = "snap_to_grid" /\ call.done

OnGrid(v) == v % GRID_MM = 0

C21_SnapIdempotent ==
    Snapped =>
        /\ OnGrid(call.ret)
        /\ 2 * Abs(call.ret - call.arg.x) <= GRID_MM
        /\ call.arg.again => call.ret = call.arg.x

C21_Witness ==
    /\ Snapped /\ call.arg.again
    /\ call.arg.first = 10000 /\ call.arg.x = 9906 /\ call.ret = 9906

\* C22: with the 2.54 grid snap_to_grid returns snap(100.0) = 99.06,
\* snap(99.9) = 99.06, snap(102.0) = 101.6, snap(0.0) = 0.0, snap(2.54) = 2.54,
\* snap(2.53) = 2.54, snap(2.55) = 2.54 and snap(127.0) = 127.0.
DocumentedSnaps ==
    { <<10000, 9906>>, <<9990, 9906>>, <<10200, 10160>>, <<0, 0>>,
      <<254, 254>>, <<253, 254>>, <<255, 254>>, <<12700, 12700>> }

C22_DocumentedSnaps ==
    Snapped => \A d \in DocumentedSnaps : call.arg.x = d[1] => call.ret = d[2]

C22_Witness == Snapped /\ ~call.arg.again /\ call.arg.x = 9990 /\ call.ret = 9906

\* C23: _mask_api_key returns "" for an empty or missing key, exactly "****"
\* for every non-empty key of 11 characters or fewer, and for a key of 12 or
\* more characters its first 7 characters, "****" and its last 4 characters;
\* so the masked text never shows every character of the key.
Masked == call.fn = "_mask_api_key" /\ call.done

Stars == <<"*","*","*","*">>

\* the positions of the key that the masked text shows
Shown(key, masked) ==
    IF masked = <<>> \/ masked = Stars
    THEN {}
    ELSE (1..7) \cup ((Len(key) - 3)..Len(key))

C23_KeyMasked ==
    Masked =>
        LET key == call.arg.s
        IN /\ (call.arg.k = "none" \/ Len(key) = 0) => call.ret = <<>>
           /\ (call.arg.k = "str" /\ Len(key) \in 1..11) => call.ret = Stars
           /\ (call.arg.k = "str" /\ Len(key) >= 12) =>
                 call.ret = SubSeq(key, 1, 7) \o Stars \o SubSeq(key, Len(key) - 3, Len(key))
           /\ Len(key) > 0 => Shown(key, call.ret) # 1..Len(key)

\* C24: with a matching version the index is built once before the first
\* operation and rebuilt only at a Wire, exactly when an AddComponent has
\* succeeded since the last build: that Wire rebuilds once and clears the
\* stale flag, a Wire with the flag clear does not rebuild, and Labels and
\* failed AddComponents neither rebuild nor change the flag.
AddSucceeded == last.op = "add_component" /\ Len(affected_refs) = last.nrefs + 1

RebuiltBy(n) == builds = last.builds + n

C24_RebuildPolicy ==
    /\ (pc = "loop" /\ i = 1) => (builds = 1 /\ ~components_added)
    /\ (pc = "loop" /\ i > 1) =>
          /\ (last.op = "wire" /\ last.stale) => (RebuiltBy(1) /\ ~components_added)
          /\ (last.op = "wire" /\ ~last.stale) => (RebuiltBy(0) /\ ~components_added)
          /\ last.op = "label" => (RebuiltBy(0) /\ components_added = last.stale)
          /\ AddSucceeded => (RebuiltBy(0) /\ components_added)
          /\ (last.op = "add_component" /\ ~AddSucceeded) =>
                (RebuiltBy(0) /\ components_added = last.stale)

\* the second wire behind an added component: the first one rebuilt, this one did not
C24_Witness ==
    /\ plan.ops = AddWireWireOps /\ pc = "loop" /\ i = 4
    /\ last.op = "wire" /\ ~last.stale /\ builds = 2 /\ last.builds = 2

\* C25: build_ref_index maps each reference to the last symbol of the
\* document's symbol collection that carries it and leaves out the symbols
\* that yield no (non-empty) reference; after two successful AddComponents
\* with the same ref a following Wire to that ref resolves against the
\* symbol added later, and both symbols stay in the document.
Carriers(symbols, ref) == { k \in 1..Len(symbols) : get_symbol_ref(symbols[k]) = ref }

Later(set) == CHOOSE k \in set : \A m \in set : m <= k

LastWins(index, symbols) ==
    /\ DOMAIN index = { get_symbol_ref(symbols[k]) : k \in 1..Len(symbols) } \ {None, <<>>}
    /\ \A ref \in DOMAIN index : index[ref] = Later(Carriers(symbols, ref))

\* the index has just been built from the document as it is now
JustBuilt == pc = "loop" /\ (i = 1 \/ (last.op = "wire" /\ last.stale))

\* both R1 of the plan were added and the wire looked R1 up
WiredToDuplicate ==
    /\ plan.ops = DuplicateRefOps /\ pc = "loop" /\ i = 4
    /\ Len(doc.symbol) = Len(doc0.symbol) + 2
    /\ Len(affected_refs) >= 2

PinOf(sym, pin) == DictGet(get_pin_locations_compat(sym), pin)

C25_LastSymbolWins ==
    /\ JustBuilt => LastWins(ref_index, doc.symbol)
    /\ WiredToDuplicate =>
          LET n == Len(doc.symbol)
              looked == last.note.lookups
          IN /\ get_symbol_ref(doc.symbol[n - 1]) = R1 /\ get_symbol_ref(doc.symbol[n]) = R1
             /\ doc.symbol[n - 1].at # doc.symbol[n].at
             /\ \A k \in 1..2 :
                   /\ looked[k].index[R1] = n
                   /\ looked[k].pos.found =>
                         <<looked[k].pos.x, looked[k].pos.y>> = PinOf(doc.symbol[n], looked[k].pin)

\* the wire found both pins on the R1 added second
C25_Witness ==
    /\ WiredToDuplicate
    /\ Len(doc.wire.items) = 1
    /\ doc.wire.items[1].pts[1] = PinOf(doc.symbol[Len(doc.symbol)], <<"1">>)
    /\ doc.wire.items[1].pts[1] # PinOf(doc.symbol[Len(doc.symbol) - 1], <<"1">>)

\* C26: rebuilding the index is idempotent and may be done conservatively:
\* an applier that rebuilds the index before every Wire returns the same
\* ApplyResult and leaves the same document as apply_plan, which rebuilds
\* only when its stale flag is set. Stated step by step: from every state
\* apply_plan reaches, its Wire leaves the document, the diagnostics and the
\* affected references as the Wire of the rebuilding applier does (all three
\* are only ever appended to, so a difference stays to the end).
AtWire == pc = "loop" /\ i <= Len(plan.ops) /\ plan.ops[i].op = "wire"

SameAsConservative ==
    \E wire_raises \in BOOLEAN :
        \E out \in {wire(rebuild_always(Locals), plan.ops[i], wire_raises)} :
            /\ doc' = out.doc
            /\ diagnostics' = out.diagnostics
            /\ affected_refs' = out.affected_refs

C26_ConservativeRebuildSame == [][(AtWire /\ i' = i + 1) => SameAsConservative]_vars

\* C27: for a symbol with a position (x, y) for which neither the native
\* pin-location query nor the iteration of its pin collection yields a pin
\* location, get_pin_locations_compat returns exactly
\* {"1": (x - 2.54, y), "2": (x + 2.54, y)}, so a lookup of pin "1" or "2" of
\* a freshly added component resolves and leaves no 'pin coordinates not
\* yet available' warning.
LookedUp == call.fn = "lookup_pin_coords" /\ call.done

NativeYieldsNone(sym) ==
    sym.get_pin_locations.kind = "map" => sym.get_pin_locations.map = <<>>

PinsYieldNone(sym) == \A k \in 1..Len(sym.pin) : ~sym.pin[k].location.has

TwoPinFallback(sym) ==
    << [key |-> <<"1">>, coord |-> <<sym.at.x - 254, sym.at.y>>],
       [key |-> <<"2">>, coord |-> <<sym.at.x + 254, sym.at.y>>] >>

C27_TwoPinFallback ==
    LookedUp =>
        LET sym == call.arg.sym
            pin_name == call.arg.pin_name
        IN (sym.at.has /\ NativeYieldsNone(sym) /\ PinsYieldNone(sym)) =>
              /\ get_pin_locations_compat(sym) = TwoPinFallback(sym)
              /\ pin_name \in {<<"1">>, <<"2">>} =>
                    /\ call.ret.pos.found
                    /\ <<call.ret.pos.x, call.ret.pos.y>> = DictGet(TwoPinFallback(sym), pin_name)
                    /\ call.ret.diagnostics = <<>>

\* C28: a Wire with a malformed endpoint string is skipped entirely (no pin
\* lookup, no wire, nothing added to affected_refs) and its error
\* diagnostics name exactly the malformed sides: one naming 'from' when from
\* is malformed, one naming 'to' when to is malformed, one for each when both are.
FromMalformed == ~validate_wire_format(plan.ops[last.i].from_).valid

ToMalformed == ~validate_wire_format(plan.ops[last.i].to).valid

MalformedWire == last.op = "wire" /\ (FromMalformed \/ ToMalformed)

SidesNamed ==
    (IF FromMalformed THEN <<"Invalid 'from' wire format">> ELSE <<>>)
    \o (IF ToMalformed THEN <<"Invalid 'to' wire format">> ELSE <<>>)

C28_MalformedSidesNamed ==
    MalformedWire =>
        /\ last.note.lookups = <<>>
        /\ WiresAdded = 0
        /\ NewRefs = <<>>
        /\ \A k \in 1..Len(Appended) : Appended[k].severity = "error"
        /\ [k \in 1..Len(Appended) |-> Appended[k].message] = SidesNamed

\* ------------------------------------------------------------------ C29
\* the add_component operation just processed has a symbol string or a
\* position that the validation layer rejects
SymbolRejected == ~validate_symbol_name(plan.ops[last.i].symbol).valid
PositionRejected == ~validate_coordinate(plan.ops[last.i].at).valid
RejectedAdd ==
    last.op = "add_component" /\ (SymbolRejected \/ PositionRejected)

\* Symbol.from_lib was called: it returned a symbol or it raised
FromLibInvoked == last.note.created \/ last.note.docfail

\* C29: an add_component whose symbol string validate_symbol_name rejects or
\* whose position validate_coordinate rejects never reaches Symbol.from_lib;
\* it appends exactly one diagnostic, an error tagged with op.ref, and adds
\* no component and no affected reference.
C29_ValidatedBeforeUse ==
    RejectedAdd =>
        /\ ~FromLibInvoked
        /\ Len(Appended) = 1
        /\ Appended[1].severity = "error"
        /\ Appended[1].ref = plan.ops[last.i].ref
        /\ SymbolsAdded = 0
        /\ NewRefs = <<>>

\* a rejected symbol string and a rejected position have both been turned
\* away in one run, where the library was there to be called
C29_Witness ==
    /\ pc = "done" /\ Len(plan.ops) = 2
    /\ env.from_lib = "callable"
    /\ plan.ops[1].op = "add_component" /\ plan.ops[2].op = "add_component"
    /\ ~validate_symbol_name(plan.ops[1].symbol).valid
    /\ validate_coordinate(plan.ops[1].at).valid
    /\ validate_symbol_name(plan.ops[2].symbol).valid
    /\ ~validate_coordinate(plan.ops[2].at).valid
    /\ Len(diagnostics) = 2 /\ doc.symbol = doc0.symbol

\* ------------------------------------------------------------------ C30
\* the validated coordinate of the operation just processed, snapped
SnappedAt ==
    LET c == validate_coordinate(plan.ops[last.i].at)
    IN <<snap_to_grid(c.x), snap_to_grid(c.y)>>

\* the operation just processed was not on the grid in the plan
OffGridInPlan ==
    LET c == validate_coordinate(plan.ops[last.i].at)
    IN c.valid /\ ~OnGrid(c.x) /\ ~OnGrid(c.y)

SymbolWritten == last.op = "add_component" /\ last.note.created
LabelWritten == last.op = "label" /\ LabelsAdded = 1

NewSymbol == doc.symbol[Len(doc.symbol)]
NewLabel == doc.label[Len(doc.label)]

\* C30: the position Symbol.from_lib is called with and the position set on
\* a new label are snap_to_grid of the validated plan coordinate, both a
\* whole number of steps of the one grid constant GRID_MM, and every
\* position in the document that was not there at the start is on the grid.
C30_PositionsSnapped ==
    /\ SymbolWritten =>
          /\ SymbolsAdded = 1
          /\ NewSymbol.at = At(SnappedAt[1], SnappedAt[2])
    /\ LabelWritten => NewLabel.at = SnappedAt
    /\ \A k \in Len(doc0.symbol) + 1 .. Len(doc.symbol) :
          OnGrid(doc.symbol[k].at.x) /\ OnGrid(doc.symbol[k].at.y)
    /\ \A k \in Len(doc0.label) + 1 .. Len(doc.label) :
          OnGrid(doc.label[k].at[1]) /\ OnGrid(doc.label[k].at[2])

\* a component and a label, neither on the grid in the plan, are both in
\* the document at the end of a run
C30_Witness ==
    /\ pc = "done" /\ LabelWritten /\ OffGridInPlan
    /\ NewLabel.at # <<validate_coordinate(plan.ops[last.i].at).x,
                       validate_coordinate(plan.ops[last.i].at).y>>
    /\ Len(doc.symbol) > Len(doc0.symbol)
    /\ plan.ops[1].op = "add_component"
    /\ NewSymbol.at.x # validate_coordinate(plan.ops[1].at).x

====
